---------------------------- MODULE Spec2Model ----------------------------
(***************************************************************************)
(* Model of the reel timeline compiler: ReelGenerator.generate             *)
(* (src/reel_generator/main.py), VideoBuilder.build_video                  *)
(* (src/reel_generator/video_builder.py) and the caption helpers           *)
(* (src/reel_generator/caption_generator.py).                              *)
(*                                                                         *)
(* Numbers.  The program computes with Python floats.  A time is modelled  *)
(* as an exact rational <<num, den>> in lowest terms (den > 0); the        *)
(* binary rounding error of float arithmetic (about 1e-15 at these         *)
(* magnitudes) is not modelled, except where it decides the direction of   *)
(* a two-decimal rendering (DoubleSide below).  A number written into the  *)
(* filter graph with ":.2f" is modelled by Fmt2, which rounds to           *)
(* hundredths; it is not the identity.                                     *)
(*                                                                         *)
(* Text.  A string is a sequence of one-character strings.                 *)
(***************************************************************************)
EXTENDS Integers, Sequences, FiniteSets, TLC

---------------------------------------------------------------------------
(* Rational arithmetic *)

Abs(n) == IF n < 0 THEN -n ELSE n

RECURSIVE GCD(_, _)
GCD(a, b) == IF b = 0 THEN a ELSE GCD(b, a % b)

Rat(n, d) ==
    LET g == GCD(Abs(n), d)
    IN  <<n \div g, d \div g>>

RInt(n) == <<n, 1>>
RAdd(x, y) == Rat(x[1] * y[2] + y[1] * x[2], x[2] * y[2])
RSub(x, y) == Rat(x[1] * y[2] - y[1] * x[2], x[2] * y[2])
RMul(x, y) == Rat(x[1] * y[1], x[2] * y[2])
RDiv(x, y) == Rat(x[1] * y[2], x[2] * y[1])        \* y > 0
RLt(x, y)  == x[1] * y[2] < y[1] * x[2]
RLe(x, y)  == x[1] * y[2] <= y[1] * x[2]
RFloor(x)  == x[1] \div x[2]

RECURSIVE SumSeq(_)
SumSeq(s) == IF s = <<>> THEN 0 ELSE Head(s) + SumSeq(Tail(s))

Max(a, b) == IF a >= b THEN a ELSE b
Min(a, b) == IF a <= b THEN a ELSE b

Prefix(s, n) == SubSeq(s, 1, n)

---------------------------------------------------------------------------
(* Python ":.2f" of a float, then read back by ffmpeg as a number.         *)
(*                                                                         *)
(* The rendering is the hundredth nearest to the double.  A value that is  *)
(* a decimal tie (x.xx5) and not a dyadic rational has no exact double:    *)
(* the double the program holds lies just below or just above it, and      *)
(* that side decides the rendering.  DoubleBelow and DoubleAbove record    *)
(* the side for the ties that the durations and scripts of this model      *)
(* produce, as CPython computes them: float("3.025") and 3.0 + 2.975 lie   *)
(* below, float("2.975") and 3.0 + 3.025 lie above, and so on for the      *)
(* crossfade offsets and caption times derived from them.  The table is    *)
(* keyed by value: for the inputs enumerated below every computation that  *)
(* arrives at a listed value arrives at the same double.  A tie held       *)
(* exactly (3.125, 6.125) is rendered half-to-even.                        *)

DoubleBelow ==
    { <<121, 40>>, <<239, 40>>, <<559, 200>>, <<877, 200>> }

DoubleAbove ==
    { <<113, 40>>, <<119, 40>>, <<133, 40>>, <<171, 40>>, <<179, 40>>,
      <<241, 40>>, <<561, 200>>, <<883, 200>>, <<957, 200>>, <<963, 200>> }

DoubleSide(x) ==
    IF x \in DoubleBelow THEN -1
    ELSE IF x \in DoubleAbove THEN 1
    ELSE 0

Fmt2(x) ==
    LET p    == x[1] * 100
        q    == x[2]
        f    == p \div q
        r    == p - f * q
        side == DoubleSide(x)
        c    == IF 2 * r < q THEN f
                ELSE IF 2 * r > q THEN f + 1
                ELSE IF side < 0 THEN f
                ELSE IF side > 0 THEN f + 1
                ELSE IF f % 2 = 0 THEN f ELSE f + 1
    IN  Rat(c, 100)

---------------------------------------------------------------------------
(* Text helpers: str.strip, str.split, re.split *)

Terminals == {".", "!", "?"}
Spaces    == {" "}

RECURSIVE LStrip(_)
LStrip(s) == IF s # <<>> /\ Head(s) \in Spaces THEN LStrip(Tail(s)) ELSE s

RECURSIVE RStrip(_)
RStrip(s) ==
    IF s # <<>> /\ s[Len(s)] \in Spaces THEN RStrip(SubSeq(s, 1, Len(s) - 1)) ELSE s

Strip(s) == RStrip(LStrip(s))

\* str.split(): the maximal runs of non-whitespace characters, in order.
RECURSIVE SplitWords(_, _)
SplitWords(s, cur) ==
    IF s = <<>> THEN (IF cur = <<>> THEN <<>> ELSE <<cur>>)
    ELSE IF Head(s) \in Spaces
         THEN (IF cur = <<>> THEN <<>> ELSE <<cur>>) \o SplitWords(Tail(s), <<>>)
         ELSE SplitWords(Tail(s), Append(cur, Head(s)))

Words(s) == SplitWords(s, <<>>)

\* re.split(r'([.!?])\s*', text): the pieces between the separators with
\* the captured terminal after each piece; the whitespace that follows a
\* terminal is consumed by the separator.  The result has odd length.
RECURSIVE ReSplit(_, _)
ReSplit(s, cur) ==
    IF s = <<>> THEN <<cur>>
    ELSE IF Head(s) \in Terminals
         THEN <<cur, <<Head(s)>>>> \o ReSplit(LStrip(Tail(s)), <<>>)
         ELSE ReSplit(Tail(s), Append(cur, Head(s)))

RECURSIVE PairUp(_, _)
PairUp(chunks, i) ==
    IF i > Len(chunks) - 1 THEN <<>>
    ELSE LET chunk == chunks[i] \o chunks[i + 1]
         IN  (IF Strip(chunk) # <<>> THEN <<Strip(chunk)>> ELSE <<>>)
             \o PairUp(chunks, i + 2)

\* Mutant of split_into_chunks: the trailing piece without punctuation is
\* dropped.
split_into_chunks_NoTail(text) == PairUp(ReSplit(text, <<>>), 1)

split_into_chunks(text) ==
    LET chunks == ReSplit(text, <<>>)
        last   == chunks[Len(chunks)]
    IN  PairUp(chunks, 1)
        \o (IF Len(chunks) % 2 # 0 /\ Strip(last) # <<>> THEN <<Strip(last)>> ELSE <<>>)


---------------------------------------------------------------------------
(* Program constants *)

TRANSITION_DURATION == 1
INTRO_DURATION == 3
ZOOMPAN_FPS == 30
DefaultImageSeconds == 5
IntroClipSeconds == 3
AudioDelayMs == 3000
MinVoiceSeconds == 3
OutroSeconds == 3
OutputFps == 30

TRANSITION_STYLES == <<"fadeblack">>

T_DUR == RInt(TRANSITION_DURATION)
Zero  == RInt(0)

---------------------------------------------------------------------------
(* Bounds and input sets *)

MaxMiddle == 4

\* Narration durations in seconds: none, just below / at / just above the
\* 3 s minimum, a value that is not a whole number of hundredths, and the
\* 20 s scenario.
VoiceDurations ==
    {<<0, 1>>, <<119, 40>>, <<3, 1>>, <<121, 40>>, <<25, 8>>, <<20, 1>>}

Scripts ==
    { <<>>,
      <<"a", ".">>,
      <<"a", ".", " ", "b">>,
      <<"a", "b", " ", "c", ".", " ", "d">>,
      <<"a", " ", "b", "c", "d", " ", "e", "!", " ", "f", "g", " ", "h", "?">>,
      <<"a", ".", " ", "b", ".", " ", "c", " ", "d", ".">> }

Titles == {<<>>, <<"T">>}

IntroPath == <<"assets/mbn_reels_intro.mp4", 0>>
OutroPath == <<"assets/outro.png", 0>>
VoicePath == <<"voiceover.mp3", 0>>
ExternalVoicePath == <<"external.mp3", 0>>
OverlayPath == <<"assets/main_overlay.png", 0>>
NoPath == <<"", 0>>

OutroVideoPath == <<"assets/mbn_reels_outro1.mp4", 0>>
LogoPath == <<"assets/mumbai-news-logo.png", 0>>

VideoPaths == {IntroPath, OutroVideoPath}

\* What _detect_hw_encoder can return.
HwEncoders == {"h264_videotoolbox", "libx264"}

MiddleImages(n) == [k \in 1..n |-> <<"img.png", k>>]

---------------------------------------------------------------------------
(* render_captions_to_images: one record per rendered PNG *)

WordSteps(chunk_idx, num_words, typewriter) ==
    IF typewriter
    THEN [w \in 1..num_words |-> [chunk_idx |-> chunk_idx, word_idx |-> w - 1]]
    ELSE <<[chunk_idx |-> chunk_idx, word_idx |-> num_words - 1]>>

RECURSIVE RenderFrom(_, _, _)
RenderFrom(chunks, k, typewriter) ==
    IF k > Len(chunks) THEN <<>>
    ELSE WordSteps(k - 1, Len(Words(chunks[k])), typewriter)
         \o RenderFrom(chunks, k + 1, typewriter)

render_captions_to_images(script, typewriter) ==
    LET frames == RenderFrom(split_into_chunks(script), 1, typewriter)
    IN  [f \in 1..Len(frames) |->
            [image_path |-> <<"caption.png", f - 1>>,
             chunk_idx  |-> frames[f].chunk_idx,
             word_idx   |-> frames[f].word_idx]]

ImagePaths(caption_data) == [f \in 1..Len(caption_data) |-> caption_data[f].image_path]

\* A caption list that was not rendered from the script of the same call.
StaleCaptions == <<<<"caption.png", 0>>, <<"caption.png", 1>>, <<"caption.png", 2>>>>

CaptionLists(script) ==
    { <<>>,
      ImagePaths(render_captions_to_images(script, TRUE)),
      ImagePaths(render_captions_to_images(script, FALSE)),
      StaleCaptions }

Segments(vd) ==
    LET half == RDiv(vd, RInt(2))
    IN  <<[title |-> <<"A">>, voice_duration |-> half],
          [title |-> <<"B">>, voice_duration |-> half]>>


---------------------------------------------------------------------------
(* State *)

VARIABLES
    pc,                  \* position in generate / build_video
    entry,               \* "generate" or "direct" (build_video called as is)
    request,             \* the config passed to ReelGenerator.generate
    voiceover_path,      \* generate: the voice track chosen or synthesized
    gen_per_image,       \* generate: per_image_duration of its result
    voice_duration,
    config,              \* the config build_video receives
    outro_offset,
    per_image_duration,
    inputs,
    input_args,          \* ffmpeg inputs in -i order
    filter_parts,        \* the filter graph, one node per entry
    last_label,
    cumulative_duration,
    loop_i,              \* index of the transition loop
    chunk_windows,
    caption_times,       \* (t0, t1) of each caption frame before formatting
    pre_outro_label,
    next_input_idx,
    built,               \* build_video's outcome
    result,              \* generate's returned record
    error,               \* the exception that ended the call, "" if none
    status,              \* the outcome the entry path recorded or reported
    hw_encoder,          \* VideoBuilder._hw_encoder of the builder in use
    encode_args,         \* the encoder options of the ffmpeg command
    unreadable,          \* the paths that name no readable file
    fs,                  \* FacelessVideoService.build_reel: its locals
    first_plan,          \* the plan and command of an earlier build_video call
    reqs,                \* two concurrent requests: each one's position and plan
    files,               \* two concurrent requests: who wrote each shared file last
    state,               \* langgraph_pipeline: the PipelineState of the run
    visited,             \* the nodes the graph has run, each with the folder index
    env                  \* what the run finds: article folders, stdin, the database

vars == <<pc, entry, request, voiceover_path, gen_per_image, voice_duration,
          config, outro_offset, per_image_duration, inputs, input_args,
          filter_parts, last_label, cumulative_duration, loop_i,
          chunk_windows, caption_times, pre_outro_label, next_input_idx,
          built, result, error, status, hw_encoder, encode_args,
          unreadable, fs, first_plan, reqs, files, state, visited, env>>

graphVars == <<state, visited, env>>
genVars   == <<request, voiceover_path, gen_per_image, result>>
buildVars == <<outro_offset, per_image_duration, inputs, input_args,
               filter_parts, last_label, cumulative_duration, loop_i,
               chunk_windows, caption_times, pre_outro_label,
               next_input_idx, built>>
subVars   == <<fs, first_plan, reqs, files, graphVars>>
extVars   == <<status, hw_encoder, encode_args, unreadable, subVars>>

\* os.path.isfile
isfile(path) == path \notin unreadable

NoLabel == <<"", 0>>

NoRequest ==
    [script |-> <<>>, intro_image |-> NoPath, outro_image |-> NoPath,
     middle_images |-> <<>>, title |-> <<>>, voiceover_audio |-> NoPath]

NoConfig ==
    [intro_image |-> NoPath, outro_image |-> NoPath, middle_images |-> <<>>,
     voiceover_audio |-> NoPath, caption_images |-> <<>>, title |-> <<>>,
     script |-> <<>>, segments |-> <<>>, use_overlay |-> TRUE]

NoClip == [kind |-> "", duration |-> Zero]

NoFs ==
    [images |-> <<>>, intro_logo |-> NoPath, outro_image |-> NoPath,
     audio_duration |-> Zero, slideshow_duration |-> Zero,
     intro_clip |-> NoClip, valid |-> <<>>, per_image |-> Zero,
     segments |-> <<>>, xfades |-> <<>>, current |-> NoClip, i |-> 0,
     slideshow_clip |-> NoClip, outro_clip |-> NoClip, final |-> NoClip,
     renders |-> 0]

NoPlan == [taken |-> FALSE]

\* No folder name: the run is not in single-folder mode.
NoFolder == 0

\* The PipelineState before run_pipeline fills it in.
NoPipelineState ==
    [folder_name |-> NoFolder, target_count |-> 0, use_mongo |-> FALSE,
     previews |-> <<>>, selected_folders |-> <<>>, current_folder_idx |-> 0,
     results |-> <<>>, error |-> ""]

NoEnv == [drive |-> <<>>, stdin |-> "tty", mongo_up |-> TRUE]

NoResult ==
    [voice_duration |-> Zero, per_image_duration |-> Zero,
     final_video_duration |-> Zero, output_file |-> NoPath]

Init ==
    /\ pc = "idle"
    /\ entry = ""
    /\ request = NoRequest
    /\ voiceover_path = NoPath
    /\ gen_per_image = Zero
    /\ voice_duration = Zero
    /\ config = NoConfig
    /\ outro_offset = Zero
    /\ per_image_duration = Zero
    /\ inputs = <<>>
    /\ input_args = <<>>
    /\ filter_parts = <<>>
    /\ last_label = NoLabel
    /\ cumulative_duration = Zero
    /\ loop_i = 0
    /\ chunk_windows = <<>>
    /\ caption_times = <<>>
    /\ pre_outro_label = NoLabel
    /\ next_input_idx = 0
    /\ built = "none"
    /\ result = NoResult
    /\ error = ""
    /\ status = ""
    /\ hw_encoder = ""
    /\ encode_args = <<>>
    /\ unreadable = {}
    /\ fs = NoFs
    /\ first_plan = NoPlan
    /\ reqs = <<>>
    /\ files = {}
    /\ state = NoPipelineState
    /\ visited = <<>>
    /\ env = NoEnv

---------------------------------------------------------------------------
(* ReelGenerator.generate *)

CallGenerate ==
    /\ pc = "idle"
    /\ \E script \in Scripts, n \in 0..MaxMiddle, title \in Titles,
          external \in {NoPath, ExternalVoicePath} :
            request' = [script |-> script, intro_image |-> IntroPath,
                        outro_image |-> OutroPath,
                        middle_images |-> MiddleImages(n), title |-> title,
                        voiceover_audio |-> external]
    /\ entry' = "generate"
    /\ pc' = "g_voiceover"
    /\ UNCHANGED <<voiceover_path, gen_per_image, result, voice_duration,
                   config, error>>
    /\ UNCHANGED buildVars
    /\ UNCHANGED extVars

\* The external voice track is given and its file exists.
G_ExternalVoiceover ==
    /\ pc = "g_voiceover"
    /\ request.voiceover_audio # NoPath
    /\ voiceover_path' = request.voiceover_audio
    /\ pc' = "g_measure"
    /\ UNCHANGED <<entry, request, gen_per_image, result, voice_duration,
                   config, error>>
    /\ UNCHANGED buildVars
    /\ UNCHANGED extVars

\* No usable external track: the TTS synthesizes one.
G_TtsVoiceover ==
    /\ pc = "g_voiceover"
    /\ voiceover_path' = VoicePath
    /\ pc' = "g_measure"
    /\ UNCHANGED <<entry, request, gen_per_image, result, voice_duration,
                   config, error>>
    /\ UNCHANGED buildVars
    /\ UNCHANGED extVars

G_TtsFailed ==
    /\ pc = "g_voiceover"
    /\ error' = "RuntimeError: Voiceover generation failed."
    /\ pc' = "raised"
    /\ UNCHANGED <<entry, request, voiceover_path, gen_per_image, result,
                   voice_duration, config>>
    /\ UNCHANGED buildVars
    /\ UNCHANGED extVars

\* Mutant of TooShort: the minimum itself is rejected.
TooShort_Inclusive(d) == RLe(d, RInt(MinVoiceSeconds))

\* voice_duration < 3.0
TooShort(d) == RLt(d, RInt(MinVoiceSeconds))

\* get_audio_duration and the two checks that follow it.
G_Measure ==
    /\ pc = "g_measure"
    /\ \E d \in VoiceDurations :
          /\ voice_duration' = d
          /\ IF TooShort(d)
             THEN /\ error' = "ValueError: Voice duration too short (minimum 3 seconds)."
                  /\ pc' = "raised"
                  /\ UNCHANGED gen_per_image
             ELSE IF Len(request.middle_images) = 0
             THEN /\ error' = "ValueError: No middle images provided."
                  /\ pc' = "raised"
                  /\ UNCHANGED gen_per_image
             ELSE /\ gen_per_image' = RDiv(d, RInt(Len(request.middle_images)))
                  /\ pc' = "g_captions"
                  /\ UNCHANGED error
    /\ UNCHANGED <<entry, request, voiceover_path, result, config>>
    /\ UNCHANGED buildVars
    /\ UNCHANGED extVars

\* render_captions_to_images and the builder config; then build_video is
\* called.
G_Captions ==
    /\ pc = "g_captions"
    /\ config' =
          [intro_image     |-> request.intro_image,
           outro_image     |-> request.outro_image,
           middle_images   |-> request.middle_images,
           voiceover_audio |-> voiceover_path,
           caption_images  |-> ImagePaths(render_captions_to_images(request.script, TRUE)),
           title           |-> request.title,
           script          |-> request.script,
           segments        |-> <<>>,
           use_overlay     |-> TRUE]
    /\ hw_encoder' \in HwEncoders
    /\ pc' = "bv_start"
    /\ UNCHANGED <<entry, request, voiceover_path, gen_per_image, result,
                   voice_duration, error>>
    /\ UNCHANGED buildVars
    /\ UNCHANGED subVars
    /\ UNCHANGED <<status, encode_args, unreadable>>

\* build_video has returned to generate.
G_Return ==
    /\ pc = "g_return"
    /\ IF built = "True"
       THEN /\ result' =
                  [voice_duration       |-> voice_duration,
                   per_image_duration   |-> gen_per_image,
                   final_video_duration |->
                       RAdd(RAdd(RInt(INTRO_DURATION), voice_duration), RInt(OutroSeconds)),
                   output_file          |-> <<"final_reel.mp4", 0>>]
            /\ pc' = "done"
            /\ UNCHANGED error
       ELSE /\ error' = "RuntimeError: Video construction failed."
            /\ pc' = "raised"
            /\ UNCHANGED result
    /\ UNCHANGED <<entry, request, voiceover_path, gen_per_image,
                   voice_duration, config>>
    /\ UNCHANGED buildVars
    /\ UNCHANGED extVars

---------------------------------------------------------------------------
(* build_video called with a config of the caller's own making *)

CallBuildVideo ==
    /\ pc = "idle"
    /\ \E d \in VoiceDurations, n \in 0..MaxMiddle, script \in Scripts,
          title \in Titles, segmented \in BOOLEAN, use_overlay \in BOOLEAN :
          \E caps \in CaptionLists(script) :
            /\ segmented => title = <<>>
            /\ voice_duration' = d
            /\ config' =
                  [intro_image     |-> IntroPath,
                   outro_image     |-> OutroPath,
                   middle_images   |-> MiddleImages(n),
                   voiceover_audio |-> VoicePath,
                   caption_images  |-> caps,
                   title           |-> title,
                   script          |-> script,
                   segments        |-> IF segmented THEN Segments(d) ELSE <<>>,
                   use_overlay     |-> use_overlay]
    /\ hw_encoder' \in HwEncoders
    /\ entry' = "direct"
    /\ pc' = "bv_start"
    /\ UNCHANGED <<request, voiceover_path, gen_per_image, result, error>>
    /\ UNCHANGED buildVars
    /\ UNCHANGED subVars
    /\ UNCHANGED <<status, encode_args, unreadable>>


---------------------------------------------------------------------------
(* VideoBuilder.build_video: helpers *)

Inp(i) == inputs[i + 1]                    \* inputs[i], 0-based as in the code

BlankNode ==
    [op |-> "", ins |-> <<>>, out |-> NoLabel, style |-> "",
     duration |-> Zero, offset |-> Zero, start |-> Zero, end |-> Zero,
     frames |-> 0]

IsVideoPath(path) == path \in VideoPaths

\* Mutants of PerImageDuration: the lead-in of the outro crossfade is
\* forgotten; the transition that every segment gives up is forgotten.
PerImageDuration_NoLeadIn(num_middle, vd) ==
    IF num_middle > 0
    THEN RAdd(RDiv(vd, RInt(num_middle)), T_DUR)
    ELSE RInt(DefaultImageSeconds)

PerImageDuration_SplitOnly(num_middle, vd) ==
    IF num_middle > 0
    THEN RDiv(RAdd(vd, T_DUR), RInt(num_middle))
    ELSE RInt(DefaultImageSeconds)

PerImageDuration(num_middle, vd) ==
    IF num_middle > 0
    THEN RAdd(RDiv(RAdd(vd, T_DUR), RInt(num_middle)), T_DUR)
    ELSE RInt(DefaultImageSeconds)

\* Mutant of OutroOffset: the anchor is taken at the end of the running
\* video instead of one transition before it.
OutroOffset_AtRunningEnd(vd) == RAdd(RAdd(RInt(INTRO_DURATION), vd), T_DUR)

OutroOffset(vd) == RAdd(RInt(INTRO_DURATION), vd)

InputArg(img, intro_img, outro_img) ==
    LET is_video == \/ (img = intro_img /\ IsVideoPath(intro_img))
                    \/ (img = outro_img /\ IsVideoPath(outro_img))
    IN  IF is_video THEN [loop |-> FALSE, t |-> IntroClipSeconds, file |-> img]
        ELSE IF img \in {intro_img, outro_img}
        THEN [loop |-> TRUE, t |-> IntroClipSeconds, file |-> img]
        ELSE [loop |-> FALSE, t |-> 0, file |-> img]

PlainInput(path) == [loop |-> FALSE, t |-> 0, file |-> path]

\* int(per_image_duration * ZOOMPAN_FPS).  int() truncates the double
\* product; for the durations in FloatProductBelow (7/3 and 5/3 seconds,
\* whose doubles lie below the exact value) the product falls just short
\* of the whole number 70 or 50 and truncates to one frame less.
FloatProductBelow == { <<7, 3>>, <<5, 3>> }

ZoompanFrames(per_image) ==
    LET exact == RFloor(RMul(per_image, RInt(ZOOMPAN_FPS)))
    IN  IF per_image \in FloatProductBelow THEN exact - 1 ELSE exact

\* Mutant of SegmentNode: with the software encoder the zoom directions
\* are swapped.
SegmentNode_ZoomByEncoder(i, img, intro_img, outro_img, per_image) ==
    IF img = intro_img \/ img = outro_img
    THEN [BlankNode EXCEPT !.op = "scale_crop_fps",
                           !.ins = <<<<"in:v", i>>>>, !.out = <<"v", i>>]
    ELSE LET swapped == IF hw_encoder = "libx264" THEN 1 ELSE 0
         IN  [BlankNode EXCEPT !.op = "scale_crop_zoompan",
                               !.ins = <<<<"in:v", i>>>>, !.out = <<"v", i>>,
                               !.style = IF (i - 1 + swapped) % 2 = 0
                                         THEN "zoom_in" ELSE "zoom_out",
                               !.frames = ZoompanFrames(per_image)]

\* The scale / pan-zoom node of input i.
SegmentNode(i, img, intro_img, outro_img, per_image) ==
    IF img = intro_img \/ img = outro_img
    THEN [BlankNode EXCEPT !.op = "scale_crop_fps",
                           !.ins = <<<<"in:v", i>>>>, !.out = <<"v", i>>]
    ELSE LET zoompan_frames == ZoompanFrames(per_image)
             img_index      == i - 1
         IN  [BlankNode EXCEPT !.op = "scale_crop_zoompan",
                               !.ins = <<<<"in:v", i>>>>, !.out = <<"v", i>>,
                               !.style = IF img_index % 2 = 0 THEN "zoom_in" ELSE "zoom_out",
                               !.frames = zoompan_frames]

\* Mutant of XfadeNode: the crossfade starts where the running video ends,
\* the transition is not taken off.
XfadeNode_OffsetLate(a, b, transition, offset, out) ==
    [BlankNode EXCEPT !.op = "xfade", !.ins = <<a, b>>, !.out = out,
                      !.style = transition, !.duration = T_DUR,
                      !.offset = Fmt2(RAdd(offset, T_DUR))]

XfadeNode(a, b, transition, offset, out) ==
    [BlankNode EXCEPT !.op = "xfade", !.ins = <<a, b>>, !.out = out,
                      !.style = transition, !.duration = T_DUR,
                      !.offset = Fmt2(offset)]

\* Mutant of NullNode: the pass-through node reads its own output.
NullNode_SelfLoop(a, out) == [BlankNode EXCEPT !.op = "null", !.ins = <<out>>, !.out = out]

NullNode(a, out) == [BlankNode EXCEPT !.op = "null", !.ins = <<a>>, !.out = out]

\* Mutant of OverlayNode: the image is the base and the running video is
\* laid over it.
OverlayNode_Under(a, b, start, end, out) ==
    [BlankNode EXCEPT !.op = "overlay", !.ins = <<b, a>>, !.out = out,
                      !.style = "between", !.start = start, !.end = end]

\* overlay=0:0:enable='between(t,start,end)'
OverlayNode(a, b, start, end, out) ==
    [BlankNode EXCEPT !.op = "overlay", !.ins = <<a, b>>, !.out = out,
                      !.style = "between", !.start = start, !.end = end]

TransitionStyle(k) == TRANSITION_STYLES[(k % Len(TRANSITION_STYLES)) + 1]

(* Caption timing *)

ChunkWordCounts(chunks) == [k \in 1..Len(chunks) |-> Max(Len(Words(chunks[k])), 1)]

\* Mutant of ChunkWindows: every chunk gets the slice of one word.
RECURSIVE ChunkWindows_Unweighted(_, _, _, _)
ChunkWindows_Unweighted(counts, total_words, t, caption_window) ==
    IF counts = <<>> THEN <<>>
    ELSE LET fraction == Rat(1, total_words)
             t_end    == RAdd(t, RMul(fraction, caption_window))
         IN  <<<<t, t_end>>>>
             \o ChunkWindows_Unweighted(Tail(counts), total_words, t_end, caption_window)

RECURSIVE ChunkWindows(_, _, _, _)
ChunkWindows(counts, total_words, t, caption_window) ==
    IF counts = <<>> THEN <<>>
    ELSE LET fraction == Rat(Head(counts), total_words)
             t_end    == RAdd(t, RMul(fraction, caption_window))
         IN  <<<<t, t_end>>>> \o ChunkWindows(Tail(counts), total_words, t_end, caption_window)

\* (chunk_idx, word_idx) of every word of the script, in order.
RECURSIVE WordPositions(_, _)
WordPositions(chunks, ci) ==
    IF ci > Len(chunks) THEN <<>>
    ELSE [w \in 1..Len(Words(chunks[ci])) |-> <<ci - 1, w - 1>>]
         \o WordPositions(chunks, ci + 1)

\* The search loop of the typewriter branch: the position of frame i, and
\* (0, 0) when the script has fewer words than i + 1.
\* Mutant of FramePosition: frame i is taken for the first word of chunk i.
FramePosition_ByChunk(chunks, i) == <<Min(i, Len(chunks) - 1), 0>>

FramePosition(chunks, i) ==
    LET ps == WordPositions(chunks, 1)
    IN  IF i < Len(ps) THEN ps[i + 1] ELSE <<0, 0>>

CharWeights(chunk_words) == [k \in 1..Len(chunk_words) |-> Max(Len(chunk_words[k]), 2)]

\* Mutant of TypewriterTimes: the total is taken over the raw word lengths
\* while each word still weighs max(len(word), 2).
TypewriterTimes_RawTotal(chunks, windows, i) ==
    LET pos          == FramePosition(chunks, i)
        chunk_idx    == pos[1]
        word_idx     == pos[2]
        chunk_start  == windows[chunk_idx + 1][1]
        chunk_end    == windows[chunk_idx + 1][2]
        chunk_dur    == RSub(chunk_end, chunk_start)
        chunk_words  == Words(chunks[chunk_idx + 1])
        char_weights == CharWeights(chunk_words)
        total_chars  == SumSeq([k \in 1..Len(chunk_words) |-> Len(chunk_words[k])])
        upto(n)      == SumSeq(Prefix(char_weights, Min(n, Len(char_weights))))
        t0 == RAdd(chunk_start, RMul(Rat(upto(word_idx), total_chars), chunk_dur))
        t1 == RAdd(chunk_start, RMul(Rat(upto(word_idx + 1), total_chars), chunk_dur))
    IN  <<t0, t1>>

TypewriterTimes(chunks, windows, i) ==
    LET pos          == FramePosition(chunks, i)
        chunk_idx    == pos[1]
        word_idx     == pos[2]
        chunk_start  == windows[chunk_idx + 1][1]
        chunk_end    == windows[chunk_idx + 1][2]
        chunk_dur    == RSub(chunk_end, chunk_start)
        char_weights == CharWeights(Words(chunks[chunk_idx + 1]))
        total_chars  == SumSeq(char_weights)
        upto(n)      == SumSeq(Prefix(char_weights, Min(n, Len(char_weights))))
        t0 == RAdd(chunk_start, RMul(Rat(upto(word_idx), total_chars), chunk_dur))
        t1 == RAdd(chunk_start, RMul(Rat(upto(word_idx + 1), total_chars), chunk_dur))
    IN  <<t0, t1>>

\* Mutant of StaticTimes: every caption gets the first chunk's window.
StaticTimes_First(windows, i) == windows[1]

StaticTimes(windows, i) == windows[Min(i, Len(windows) - 1) + 1]

\* The chain of caption overlays over v_base_middle, closed by the null
\* node that names the result v_captioned.
CaptionNodes(times, caption_start_idx) ==
    LET n == Len(times)
        cap(i) ==
            OverlayNode(IF i = 0 THEN <<"v_base_middle", 0>> ELSE <<"v_cap", i - 1>>,
                        <<"in:v", caption_start_idx + i>>,
                        Fmt2(times[i + 1][1]), Fmt2(times[i + 1][2]),
                        <<"v_cap", i>>)
    IN  [k \in 1..n |-> cap(k - 1)]
        \o <<NullNode(IF n = 0 THEN <<"v_base_middle", 0>> ELSE <<"v_cap", n - 1>>,
                      <<"v_captioned", 0>>)>>


---------------------------------------------------------------------------
(* VideoBuilder.build_video: steps *)

callerVars == <<entry, request, voiceover_path, gen_per_image, result,
                voice_duration, config>>

\* Where control goes when build_video returns or raises.
AfterReturn ==
    CASE entry = "generate"  -> "g_return"
      [] entry = "langgraph" -> "lg_return"
      [] entry = "cloud"     -> "cl_return"
      [] entry = "combined"  -> "cb_return"
      [] OTHER               -> "done"

\* Timing math.
BV_Timing ==
    /\ pc = "bv_start"
    /\ outro_offset' = OutroOffset(voice_duration)
    /\ per_image_duration' = PerImageDuration(Len(config.middle_images), voice_duration)
    /\ pc' = "bv_inputs"
    /\ UNCHANGED <<inputs, input_args, filter_parts, last_label,
                   cumulative_duration, loop_i, chunk_windows, caption_times,
                   pre_outro_label, next_input_idx, built, error>>
    /\ UNCHANGED callerVars
    /\ UNCHANGED extVars

\* The ffmpeg input list: intro, content, outro, the voice track, the
\* caption images.
BV_Inputs ==
    /\ pc = "bv_inputs"
    /\ LET ins == <<config.intro_image>> \o config.middle_images \o <<config.outro_image>>
       IN  /\ inputs' = ins
           /\ input_args' =
                 [k \in 1..Len(ins) |-> InputArg(ins[k], config.intro_image, config.outro_image)]
                 \o <<PlainInput(config.voiceover_audio)>>
                 \o [k \in 1..Len(config.caption_images) |-> PlainInput(config.caption_images[k])]
    /\ pc' = "bv_segments"
    /\ UNCHANGED <<outro_offset, per_image_duration, filter_parts, last_label,
                   cumulative_duration, loop_i, chunk_windows, caption_times,
                   pre_outro_label, next_input_idx, built, error>>
    /\ UNCHANGED callerVars
    /\ UNCHANGED extVars

\* One scale / pan-zoom node per input.
BV_Segments ==
    /\ pc = "bv_segments"
    /\ filter_parts' =
          [k \in 1..Len(inputs) |->
              SegmentNode(k - 1, inputs[k], config.intro_image, config.outro_image,
                          per_image_duration)]
    /\ last_label' = <<"v", 0>>
    /\ cumulative_duration' = RInt(INTRO_DURATION)
    /\ loop_i' = 1
    /\ pc' = "bv_xfade"
    /\ UNCHANGED <<outro_offset, per_image_duration, inputs, input_args,
                   chunk_windows, caption_times, pre_outro_label,
                   next_input_idx, built, error>>
    /\ UNCHANGED callerVars
    /\ UNCHANGED extVars

\* One iteration of the transition loop over the content images.
BV_Xfade ==
    /\ pc = "bv_xfade"
    /\ loop_i < Len(inputs) - 1
    /\ LET next_label == <<"v_join", loop_i>>
           offset     == RSub(cumulative_duration, T_DUR)
           transition == TransitionStyle(loop_i - 1)
       IN  /\ filter_parts' =
                 Append(filter_parts,
                        XfadeNode(last_label, <<"v", loop_i>>, transition, offset, next_label))
           /\ last_label' = next_label
    /\ cumulative_duration' = RAdd(cumulative_duration, RSub(per_image_duration, T_DUR))
    /\ loop_i' = loop_i + 1
    /\ UNCHANGED <<pc, outro_offset, per_image_duration, inputs, input_args,
                   chunk_windows, caption_times, pre_outro_label,
                   next_input_idx, built, error>>
    /\ UNCHANGED callerVars
    /\ UNCHANGED extVars

\* The loop is over: the running video is named v_base_middle.
BV_XfadeDone ==
    /\ pc = "bv_xfade"
    /\ ~(loop_i < Len(inputs) - 1)
    /\ filter_parts' = Append(filter_parts, NullNode(last_label, <<"v_base_middle", 0>>))
    /\ pc' = "bv_captions"
    /\ UNCHANGED <<outro_offset, per_image_duration, inputs, input_args,
                   last_label, cumulative_duration, loop_i, chunk_windows,
                   caption_times, pre_outro_label, next_input_idx, built, error>>
    /\ UNCHANGED callerVars
    /\ UNCHANGED extVars

(* Caption overlays *)

num_captions    == Len(config.caption_images)
caption_start   == RInt(INTRO_DURATION)
caption_end     == outro_offset
caption_start_idx == Len(inputs) + 1
CaptionsWanted  == num_captions # 0 /\ RLt(caption_start, caption_end)
ScriptChunks    == split_into_chunks(config.script)
ScriptWindows   ==
    LET counts == ChunkWordCounts(ScriptChunks)
    IN  ChunkWindows(counts, SumSeq(counts), caption_start,
                     RSub(caption_end, caption_start))
is_typewriter   == num_captions > Len(ScriptChunks)

\* No caption image, or an empty caption range: a passthrough.
BV_CaptionsSkipped ==
    /\ pc = "bv_captions"
    /\ ~CaptionsWanted
    /\ filter_parts' = filter_parts \o CaptionNodes(<<>>, caption_start_idx)
    /\ pc' = "bv_title"
    /\ UNCHANGED <<outro_offset, per_image_duration, inputs, input_args,
                   last_label, cumulative_duration, loop_i, chunk_windows,
                   caption_times, pre_outro_label, next_input_idx, built, error>>
    /\ UNCHANGED callerVars
    /\ UNCHANGED extVars

\* Typewriter mode: more caption images than chunks.
BV_CaptionsTypewriter ==
    /\ pc = "bv_captions"
    /\ CaptionsWanted
    /\ is_typewriter
    /\ ScriptChunks # <<>>
    /\ LET times == [k \in 1..num_captions |->
                        TypewriterTimes(ScriptChunks, ScriptWindows, k - 1)]
       IN  /\ caption_times' = times
           /\ filter_parts' = filter_parts \o CaptionNodes(times, caption_start_idx)
    /\ chunk_windows' = ScriptWindows
    /\ pc' = "bv_title"
    /\ UNCHANGED <<outro_offset, per_image_duration, inputs, input_args,
                   last_label, cumulative_duration, loop_i, pre_outro_label,
                   next_input_idx, built, error>>
    /\ UNCHANGED callerVars
    /\ UNCHANGED extVars

\* Typewriter mode with a script that has no chunk: chunk_windows is empty
\* and chunk_windows[chunk_idx] raises for the first caption image.
BV_CaptionsIndexError ==
    /\ pc = "bv_captions"
    /\ CaptionsWanted
    /\ is_typewriter
    /\ ScriptChunks = <<>>
    /\ chunk_windows' = ScriptWindows
    /\ built' = "raised"
    /\ error' = "IndexError: list index out of range"
    /\ pc' = "raised"
    /\ UNCHANGED <<outro_offset, per_image_duration, inputs, input_args,
                   filter_parts, last_label, cumulative_duration, loop_i,
                   caption_times, pre_outro_label, next_input_idx>>
    /\ UNCHANGED callerVars
    /\ UNCHANGED extVars

\* Static mode: at most one caption image per chunk.
BV_CaptionsStatic ==
    /\ pc = "bv_captions"
    /\ CaptionsWanted
    /\ ~is_typewriter
    /\ LET times == [k \in 1..num_captions |-> StaticTimes(ScriptWindows, k - 1)]
       IN  /\ caption_times' = times
           /\ filter_parts' = filter_parts \o CaptionNodes(times, caption_start_idx)
    /\ chunk_windows' = ScriptWindows
    /\ pc' = "bv_title"
    /\ UNCHANGED <<outro_offset, per_image_duration, inputs, input_args,
                   last_label, cumulative_duration, loop_i, pre_outro_label,
                   next_input_idx, built, error>>
    /\ UNCHANGED callerVars
    /\ UNCHANGED extVars


(* Title overlays *)

RECURSIVE SegmentTitleNodes(_, _, _, _, _)
SegmentTitleNodes(segments, seg_i, seg_start, curr_v, idx) ==
    IF seg_i >= Len(segments) THEN <<>>
    ELSE LET seg     == segments[seg_i + 1]
             seg_end == RAdd(seg_start, seg.voice_duration)
             nxt     == <<"v_title", seg_i>>
         IN  <<OverlayNode(curr_v, <<"in:v", idx>>, Fmt2(seg_start), Fmt2(seg_end), nxt)>>
             \o SegmentTitleNodes(segments, seg_i + 1, seg_end, nxt, idx + 1)

\* Mutant of TitleInputIdx: the caption inputs are not counted.
TitleInputIdx_NoCaptions == Len(inputs) + 1

TitleInputIdx == Len(inputs) + 1 + Len(config.caption_images)

\* Combined reel: one title overlay per segment.
BV_SegmentTitles ==
    /\ pc = "bv_title"
    /\ config.segments # <<>>
    /\ LET segs == config.segments
       IN  /\ input_args' = input_args \o
                 [k \in 1..Len(segs) |-> PlainInput(<<"title_seg.png", k - 1>>)]
           /\ filter_parts' = filter_parts \o
                 SegmentTitleNodes(segs, 0, RInt(INTRO_DURATION),
                                   <<"v_captioned", 0>>, TitleInputIdx)
           /\ pre_outro_label' = <<"v_title", Len(segs) - 1>>
           /\ next_input_idx' = TitleInputIdx + Len(segs)
    /\ pc' = "bv_frame"
    /\ UNCHANGED <<outro_offset, per_image_duration, inputs, last_label,
                   cumulative_duration, loop_i, chunk_windows, caption_times,
                   built, error>>
    /\ UNCHANGED callerVars
    /\ UNCHANGED extVars

\* Single reel: one title over the whole content section.
BV_SingleTitle ==
    /\ pc = "bv_title"
    /\ config.segments = <<>>
    /\ config.title # <<>>
    /\ input_args' = Append(input_args, PlainInput(<<"title_overlay.png", 0>>))
    /\ filter_parts' =
          Append(filter_parts,
                 OverlayNode(<<"v_captioned", 0>>, <<"in:v", TitleInputIdx>>,
                             caption_start, Fmt2(outro_offset), <<"v_titled", 0>>))
    /\ pre_outro_label' = <<"v_titled", 0>>
    /\ next_input_idx' = TitleInputIdx + 1
    /\ pc' = "bv_frame"
    /\ UNCHANGED <<outro_offset, per_image_duration, inputs, last_label,
                   cumulative_duration, loop_i, chunk_windows, caption_times,
                   built, error>>
    /\ UNCHANGED callerVars
    /\ UNCHANGED extVars

BV_NoTitle ==
    /\ pc = "bv_title"
    /\ config.segments = <<>>
    /\ config.title = <<>>
    /\ pre_outro_label' = <<"v_captioned", 0>>
    /\ next_input_idx' = TitleInputIdx
    /\ pc' = "bv_frame"
    /\ UNCHANGED <<outro_offset, per_image_duration, inputs, input_args,
                   filter_parts, last_label, cumulative_duration, loop_i,
                   chunk_windows, caption_times, built, error>>
    /\ UNCHANGED callerVars
    /\ UNCHANGED extVars

(* News frame overlay *)

\* use_overlay and the overlay file exists.
BV_Frame ==
    /\ pc = "bv_frame"
    /\ config.use_overlay
    /\ input_args' = Append(input_args, PlainInput(OverlayPath))
    /\ filter_parts' = filter_parts \o
          << [BlankNode EXCEPT !.op = "scale", !.ins = <<<<"in:v", next_input_idx>>>>,
                               !.out = <<"ov_scaled", 0>>],
             [BlankNode EXCEPT !.op = "overlay",
                               !.ins = <<pre_outro_label, <<"ov_scaled", 0>>>>,
                               !.out = <<"v_framed", 0>>, !.style = "always"] >>
    /\ pre_outro_label' = <<"v_framed", 0>>
    /\ next_input_idx' = next_input_idx + 1
    /\ pc' = "bv_outro"
    /\ UNCHANGED <<outro_offset, per_image_duration, inputs, last_label,
                   cumulative_duration, loop_i, chunk_windows, caption_times,
                   built, error>>
    /\ UNCHANGED callerVars
    /\ UNCHANGED extVars

\* No overlay requested, or the overlay file is missing (a warning).
BV_NoFrame ==
    /\ pc = "bv_frame"
    /\ pc' = "bv_outro"
    /\ UNCHANGED <<outro_offset, per_image_duration, inputs, input_args,
                   filter_parts, last_label, cumulative_duration, loop_i,
                   chunk_windows, caption_times, pre_outro_label,
                   next_input_idx, built, error>>
    /\ UNCHANGED callerVars
    /\ UNCHANGED extVars

(* Outro crossfade, audio, render *)

BV_Outro ==
    /\ pc = "bv_outro"
    /\ LET outro_idx        == Len(inputs) - 1
           outro_transition == TransitionStyle(outro_idx - 1)
       IN  filter_parts' =
              Append(filter_parts,
                     XfadeNode(pre_outro_label, <<"v", outro_idx>>, outro_transition,
                               outro_offset, <<"v_final", 0>>))
    /\ pc' = "bv_audio"
    /\ UNCHANGED <<outro_offset, per_image_duration, inputs, input_args,
                   last_label, cumulative_duration, loop_i, chunk_windows,
                   caption_times, pre_outro_label, next_input_idx, built, error>>
    /\ UNCHANGED callerVars
    /\ UNCHANGED extVars

\* atrim=0:<voice_duration>,asetpts=PTS-STARTPTS,adelay=3000|3000
AudioNode(audio_idx, vd) ==
    [BlankNode EXCEPT !.op = "atrim_adelay", !.ins = <<<<"in:a", audio_idx>>>>,
                      !.out = <<"a_delayed", 0>>, !.start = Zero,
                      !.end = Fmt2(vd), !.offset = Rat(AudioDelayMs, 1000)]

BV_Audio ==
    /\ pc = "bv_audio"
    /\ filter_parts' = Append(filter_parts, AudioNode(Len(inputs), voice_duration))
    /\ pc' = "bv_run"
    /\ UNCHANGED <<outro_offset, per_image_duration, inputs, input_args,
                   last_label, cumulative_duration, loop_i, chunk_windows,
                   caption_times, pre_outro_label, next_input_idx, built, error>>
    /\ UNCHANGED callerVars
    /\ UNCHANGED extVars

\* -c:v <encoder> -pix_fmt yuv420p -r 30 and the encoder's own option.
EncodeArgs(encoder) ==
    <<"-c:v", encoder, "-pix_fmt", "yuv420p", "-r", OutputFps>>
    \o (IF encoder = "h264_videotoolbox" THEN <<"-b:v", "5M">>
                                          ELSE <<"-preset", "medium">>)

\* The command is assembled and run.  subprocess.run(cmd, check=True):
\* True on success, False on CalledProcessError; ffmpeg exits with an
\* error when it cannot open one of its inputs.
BV_Run ==
    /\ pc = "bv_run"
    /\ encode_args' = EncodeArgs(hw_encoder)
    /\ \E ok \in BOOLEAN :
          /\ ok => \A k \in DOMAIN input_args : isfile(input_args[k].file)
          /\ built' = IF ok THEN "True" ELSE "False"
    /\ pc' = AfterReturn
    /\ UNCHANGED <<outro_offset, per_image_duration, inputs, input_args,
                   filter_parts, last_label, cumulative_duration, loop_i,
                   chunk_windows, caption_times, pre_outro_label,
                   next_input_idx, error>>
    /\ UNCHANGED callerVars
    /\ UNCHANGED <<status, hw_encoder, unreadable>>
    /\ UNCHANGED subVars

---------------------------------------------------------------------------
(* The other entry paths that build a reel *)

\* Scripts and per-article narration lengths of the pipeline runs.
PipelineScripts == { <<"a", ".">>, <<"a", ".", " ", "b">> }

ArticleDurations == { <<1, 1>>, <<3, 2>>, <<10, 1>> }

MaxArticleImages == 2

RMax(x, y) == IF RLt(x, y) THEN y ELSE x

\* generate_mock_audio: max(3.0, (word_count / 150) * 60.0)
MockDuration(script) ==
    RMax(RInt(MinVoiceSeconds), RMul(Rat(Len(Words(script)), 150), RInt(60)))

\* What the voice track measures: the mock track its own length, a
\* synthesized one whatever get_audio_duration reads from the file.
MeasuredDurations(script, mocked) ==
    IF mocked THEN {MockDuration(script)} ELSE VoiceDurations

PipelineConfig(intro, images, voice, script, title) ==
    [intro_image     |-> intro,
     outro_image     |-> OutroVideoPath,
     middle_images   |-> images,
     voiceover_audio |-> voice,
     caption_images  |-> ImagePaths(render_captions_to_images(script, TRUE)),
     title           |-> title,
     script          |-> script,
     segments        |-> <<>>,
     use_overlay     |-> FALSE]

(* langgraph_pipeline: generate_script, generate_voiceover, assemble_reel *)

\* Node 3.  The folder's article and images are listed; without article
\* text or without images the folder's result is "failed".
LG_GenerateScript ==
    /\ pc = "idle"
    /\ \E n \in 0..MaxMiddle, script \in PipelineScripts, title \in Titles,
          article_ok \in BOOLEAN, llm_ok \in BOOLEAN :
          /\ request' = [script |-> script, intro_image |-> IntroPath,
                         outro_image |-> OutroVideoPath,
                         middle_images |-> MiddleImages(n), title |-> title,
                         voiceover_audio |-> NoPath]
          /\ IF ~article_ok \/ n = 0 \/ ~llm_ok
             THEN status' = "failed" /\ pc' = "done"
             ELSE status' = "script_done" /\ pc' = "lg_voiceover"
    /\ entry' = "langgraph"
    /\ UNCHANGED <<voiceover_path, gen_per_image, result, voice_duration,
                   config, error, hw_encoder, encode_args, unreadable>>
    /\ UNCHANGED buildVars
    /\ UNCHANGED subVars

\* Node 4.  Mock audio, a synthesized track, the mock fallback on a quota
\* error, or "failed" on any other TTS error.
LG_GenerateVoiceover ==
    /\ pc = "lg_voiceover"
    /\ \/ \E mocked \in BOOLEAN :
            \E d \in MeasuredDurations(request.script, mocked) :
                /\ voice_duration' = d
                /\ voiceover_path' = VoicePath
                /\ status' = "audio_done"
                /\ pc' = "lg_assemble"
       \/ /\ status' = "failed"
          /\ pc' = "done"
          /\ UNCHANGED <<voice_duration, voiceover_path>>
    /\ UNCHANGED <<entry, request, gen_per_image, result, config, error,
                   hw_encoder, encode_args, unreadable>>
    /\ UNCHANGED buildVars
    /\ UNCHANGED subVars

\* Node 5 up to the call: the images are listed again, the captions are
\* rendered, the config is built and build_video is called on a new
\* VideoBuilder.
LG_AssembleReel ==
    /\ pc = "lg_assemble"
    /\ config' = PipelineConfig(IntroPath, request.middle_images, voiceover_path,
                                request.script, request.title)
    /\ hw_encoder' \in HwEncoders
    /\ pc' = "bv_start"
    /\ UNCHANGED <<entry, request, voiceover_path, gen_per_image, result,
                   voice_duration, error, status, encode_args, unreadable>>
    /\ UNCHANGED buildVars
    /\ UNCHANGED subVars

\* Node 5 after the call: build_video's return value is not looked at;
\* only an exception makes the result "failed".
LG_AssembleReturn ==
    /\ pc = "lg_return"
    /\ status' = IF error # "" THEN "failed" ELSE "success"
    /\ pc' = "done"
    /\ UNCHANGED <<entry, request, voiceover_path, gen_per_image, result,
                   voice_duration, config, error, hw_encoder, encode_args, unreadable>>
    /\ UNCHANGED buildVars
    /\ UNCHANGED subVars

(* scripts/create_reel_from_cloud.py *)

\* No file is missing, or one is: a content image, the intro, the outro.
MissingOne(n, intro, outro) ==
    {{}} \cup {{<<"img.png", k>>} : k \in 1..n} \cup {{intro}, {outro}}

\* The content and media documents are fetched; the images are the media
\* documents of type "image".  other_media: a media document of another
\* type exists.  The local_path of one image, the intro logo or the outro
\* video may name no file on this machine.
CL_Fetch ==
    /\ pc = "idle"
    /\ \E n \in 0..MaxMiddle, script \in PipelineScripts, title \in Titles,
          content_ok \in BOOLEAN, other_media \in BOOLEAN :
          /\ unreadable' \in MissingOne(n, LogoPath, OutroVideoPath)
          /\ request' = [script |-> script, intro_image |-> LogoPath,
                         outro_image |-> OutroVideoPath,
                         middle_images |-> MiddleImages(n), title |-> title,
                         voiceover_audio |-> NoPath]
          /\ IF ~content_ok \/ (n = 0 /\ ~other_media)
             THEN pc' = "done"
             ELSE pc' = "cl_voiceover"
    /\ entry' = "cloud"
    /\ UNCHANGED <<voiceover_path, gen_per_image, result, voice_duration,
                   config, error, status, hw_encoder, encode_args>>
    /\ UNCHANGED buildVars
    /\ UNCHANGED subVars

\* The voiceover (with the mock fallback on a quota error) and its
\* measured duration; any other TTS error ends the run.
CL_Voiceover ==
    /\ pc = "cl_voiceover"
    /\ \/ \E mocked \in BOOLEAN :
            \E d \in MeasuredDurations(request.script, mocked) :
                /\ voice_duration' = d
                /\ voiceover_path' = VoicePath
                /\ pc' = "cl_assemble"
       \/ /\ pc' = "done"
          /\ UNCHANGED <<voice_duration, voiceover_path>>
    /\ UNCHANGED <<entry, request, gen_per_image, result, config, error>>
    /\ UNCHANGED buildVars
    /\ UNCHANGED extVars

CL_Assemble ==
    /\ pc = "cl_assemble"
    /\ config' = PipelineConfig(LogoPath, request.middle_images, voiceover_path,
                                request.script, request.title)
    /\ hw_encoder' \in HwEncoders
    /\ pc' = "bv_start"
    /\ UNCHANGED <<entry, request, voiceover_path, gen_per_image, result,
                   voice_duration, error, status, encode_args, unreadable>>
    /\ UNCHANGED buildVars
    /\ UNCHANGED subVars

\* build_video's return value is not looked at: "SUCCESS! Reel created"
\* is printed unless an exception was raised.
CL_Return ==
    /\ pc = "cl_return"
    /\ status' = IF error # "" THEN "failed" ELSE "success"
    /\ pc' = "done"
    /\ UNCHANGED <<entry, request, voiceover_path, gen_per_image, result,
                   voice_duration, config, error, hw_encoder, encode_args, unreadable>>
    /\ UNCHANGED buildVars
    /\ UNCHANGED subVars

(* langgraph_pipeline.run_combined_pipeline *)

ArticleImages(first, n) == [k \in 1..n |-> <<"img.png", first + k - 1>>]

\* Two selected folders.  A folder without article or images, or whose
\* voiceover failed, is skipped; fewer than two prepared articles end the
\* run.  Otherwise the images are flattened, the durations summed, and
\* build_video is called with one segment per article.
CB_Prepare ==
    /\ pc = "idle"
    /\ \E n1 \in 0..MaxArticleImages, n2 \in 0..MaxArticleImages,
          d1 \in ArticleDurations, d2 \in ArticleDurations,
          tts_ok \in BOOLEAN :
          LET script1 == <<"a", ".">>
              script2 == <<"b", " ", "c", ".">>
              combined_script == script1 \o <<" ">> \o script2
              all_images == ArticleImages(1, n1) \o ArticleImages(n1 + 1, n2)
              total_voice_duration == RAdd(d1, d2)
          IN  /\ request' = [script |-> combined_script, intro_image |-> IntroPath,
                             outro_image |-> OutroVideoPath,
                             middle_images |-> all_images, title |-> <<>>,
                             voiceover_audio |-> NoPath]
              /\ IF n1 = 0 \/ n2 = 0 \/ ~tts_ok
                 THEN /\ pc' = "done"
                      /\ UNCHANGED <<voice_duration, voiceover_path, config,
                                     hw_encoder>>
                 ELSE /\ voice_duration' = total_voice_duration
                      /\ voiceover_path' = <<"combined_concat.mp3", 0>>
                      /\ config' =
                            [intro_image     |-> IntroPath,
                             outro_image     |-> OutroVideoPath,
                             middle_images   |-> all_images,
                             voiceover_audio |-> <<"combined_concat.mp3", 0>>,
                             caption_images  |->
                                 ImagePaths(render_captions_to_images(combined_script, FALSE)),
                             title           |-> <<>>,
                             script          |-> combined_script,
                             segments        |->
                                 <<[title |-> <<"A">>, voice_duration |-> d1],
                                   [title |-> <<"B">>, voice_duration |-> d2]>>,
                             use_overlay     |-> FALSE]
                      /\ hw_encoder' \in HwEncoders
                      /\ pc' = "bv_start"
    /\ entry' = "combined"
    /\ UNCHANGED <<gen_per_image, result, error, status, encode_args,
                   unreadable>>
    /\ UNCHANGED buildVars
    /\ UNCHANGED subVars

\* if builder.build_video(...): success is reported, else an error.
CB_Return ==
    /\ pc = "cb_return"
    /\ status' = IF built = "True" /\ error = "" THEN "success" ELSE "failed"
    /\ pc' = "done"
    /\ UNCHANGED <<entry, request, voiceover_path, gen_per_image, result,
                   voice_duration, config, error, hw_encoder, encode_args, unreadable>>
    /\ UNCHANGED buildVars
    /\ UNCHANGED subVars

---------------------------------------------------------------------------

Next ==
    \/ CallGenerate
    \/ G_ExternalVoiceover
    \/ G_TtsVoiceover
    \/ G_TtsFailed
    \/ G_Measure
    \/ G_Captions
    \/ G_Return
    \/ CallBuildVideo
    \/ BV_Timing
    \/ BV_Inputs
    \/ BV_Segments
    \/ BV_Xfade
    \/ BV_XfadeDone
    \/ BV_CaptionsSkipped
    \/ BV_CaptionsTypewriter
    \/ BV_CaptionsIndexError
    \/ BV_CaptionsStatic
    \/ BV_SegmentTitles
    \/ BV_SingleTitle
    \/ BV_NoTitle
    \/ BV_Frame
    \/ BV_NoFrame
    \/ BV_Outro
    \/ BV_Audio
    \/ BV_Run

Spec == Init /\ [][Next]_vars

\* Every entry path that builds a reel through VideoBuilder.build_video.
\* These callers render the caption images from the script they pass on,
\* so the builder's IndexError branch (caption images without a script) is
\* not among their steps.
NextEntry ==
    \/ CallGenerate
    \/ G_ExternalVoiceover
    \/ G_TtsVoiceover
    \/ G_TtsFailed
    \/ G_Measure
    \/ G_Captions
    \/ G_Return
    \/ LG_GenerateScript
    \/ LG_GenerateVoiceover
    \/ LG_AssembleReel
    \/ LG_AssembleReturn
    \/ CL_Fetch
    \/ CL_Voiceover
    \/ CL_Assemble
    \/ CL_Return
    \/ CB_Prepare
    \/ CB_Return
    \/ BV_Timing
    \/ BV_Inputs
    \/ BV_Segments
    \/ BV_Xfade
    \/ BV_XfadeDone
    \/ BV_CaptionsSkipped
    \/ BV_CaptionsTypewriter
    \/ BV_CaptionsStatic
    \/ BV_SegmentTitles
    \/ BV_SingleTitle
    \/ BV_NoTitle
    \/ BV_Frame
    \/ BV_NoFrame
    \/ BV_Outro
    \/ BV_Audio
    \/ BV_Run

SpecEntry == Init /\ [][NextEntry]_vars


---------------------------------------------------------------------------
(* src/services/faceless_video_service.py and src/agents/faceless_reel_agent.py *)

intro_duration == 3
outro_duration == 3
transition_dur == Rat(6, 5)
FPS == 30

FACELESS_TRANSITION_STYLES ==
    <<"fadeblack", "slideleft", "diagtl", "circlecrop", "radial", "smoothleft">>

SettingsLogoPath == <<"assets/logo.png", 0>>

\* What _get_audio_duration reads from the voice track.
AudioDurations == { <<5, 1>>, <<10, 1>>, <<18, 1>> }

\* The files a call may find missing: any of its content paths, the intro
\* logo, the outro image.
FacelessPaths(n) == {<<"img.png", k>> : k \in 1..n} \cup {SettingsLogoPath, OutroPath}

reelVars == <<request, voiceover_path, gen_per_image, result, voice_duration,
              config, status, hw_encoder, encode_args>>
otherSubVars == <<first_plan, reqs, files, graphVars>>

\* FacelessReelAgent.generate_reel: the checks, the voiceover, and the
\* call of build_reel with the valid images.
FA_GenerateReel ==
    /\ pc = "idle"
    /\ \E n \in 0..MaxMiddle, tts_ok \in BOOLEAN :
         \E gone \in SUBSET FacelessPaths(n) :
            LET images       == MiddleImages(n)
                valid_images == SelectSeq(images, LAMBDA img : img \notin gone)
            IN  /\ unreadable' = gone
                /\ IF images = <<>>
                   THEN /\ error' = "ValueError: At least one image is required"
                        /\ pc' = "raised"
                        /\ fs' = fs
                   ELSE IF valid_images = <<>>
                   THEN /\ error' = "FileNotFoundError: No valid image files found"
                        /\ pc' = "raised"
                        /\ fs' = fs
                   ELSE IF ~tts_ok
                   THEN /\ error' = "Exception: voiceover generation failed"
                        /\ pc' = "raised"
                        /\ fs' = fs
                   ELSE /\ fs' = [fs EXCEPT !.images = valid_images,
                                            !.intro_logo = SettingsLogoPath,
                                            !.outro_image = OutroPath]
                        /\ pc' = "fs_start"
                        /\ UNCHANGED error
    /\ entry' = "agent"
    /\ UNCHANGED <<reelVars, buildVars, otherSubVars>>

\* FacelessVideoService.build_reel called with the caller's own list.
FS_BuildReel ==
    /\ pc = "idle"
    /\ \E n \in 0..MaxMiddle :
         \E gone \in SUBSET FacelessPaths(n) :
            /\ unreadable' = gone
            /\ fs' = [fs EXCEPT !.images = MiddleImages(n),
                                !.intro_logo = SettingsLogoPath,
                                !.outro_image = OutroPath]
    /\ entry' = "service"
    /\ pc' = "fs_start"
    /\ UNCHANGED <<error, reelVars, buildVars, otherSubVars>>

\* The audio is measured and the slideshow sized:
\* max(1.0, audio_duration - intro_duration - outro_duration).
FS_Measure ==
    /\ pc = "fs_start"
    /\ \E d \in AudioDurations :
          fs' = [fs EXCEPT !.audio_duration = d,
                           !.slideshow_duration =
                               RMax(RInt(1), RSub(RSub(d, RInt(intro_duration)),
                                                  RInt(outro_duration)))]
    /\ pc' = "fs_intro"
    /\ UNCHANGED <<entry, error, unreadable, reelVars, buildVars, otherSubVars>>

\* _build_intro: the logo over a black card, or a text card when the logo
\* is no file; either way a clip of intro_duration.
FS_BuildIntro ==
    /\ pc = "fs_intro"
    /\ fs' = [fs EXCEPT !.intro_clip =
                            [kind |-> IF isfile(fs.intro_logo) THEN "logo" ELSE "placeholder",
                             duration |-> RInt(intro_duration)],
                        !.renders = @ + 1]
    /\ pc' = "fs_slideshow"
    /\ UNCHANGED <<entry, error, unreadable, reelVars, buildVars, otherSubVars>>

\* A pan-zoom clip of one image: ffmpeg ... -t per_image seg_i.mp4
FsSegment(i, img, per_image) ==
    [image |-> img, zoom |-> IF i % 2 = 0 THEN "zoom_in" ELSE "zoom_out",
     frames |-> RFloor(RMul(per_image, RInt(FPS))), duration |-> per_image]

\* _build_slideshow up to the transition loop: the valid images, the black
\* clip when there is none, one clip per image otherwise.
FS_SlideshowSegments ==
    /\ pc = "fs_slideshow"
    /\ LET valid == SelectSeq(fs.images, isfile)
           n     == Len(valid)
       IN  IF valid = <<>>
           THEN /\ fs' = [fs EXCEPT !.slideshow_clip =
                                        [kind |-> "black", duration |-> fs.slideshow_duration],
                                    !.renders = @ + 1]
                /\ pc' = "fs_outro"
           ELSE LET per_image == RDiv(fs.slideshow_duration, RInt(n))
                    segs == [k \in 1..n |-> FsSegment(k - 1, valid[k], per_image)]
                IN  IF n = 1
                    THEN /\ fs' = [fs EXCEPT !.valid = valid, !.per_image = per_image,
                                             !.segments = segs,
                                             !.slideshow_clip =
                                                 [kind |-> "slides", duration |-> per_image],
                                             !.renders = @ + n]
                         /\ pc' = "fs_outro"
                    ELSE /\ fs' = [fs EXCEPT !.valid = valid, !.per_image = per_image,
                                             !.segments = segs,
                                             !.current =
                                                 [kind |-> "slides", duration |-> per_image],
                                             !.i = 1,
                                             !.renders = @ + n]
                         /\ pc' = "fs_xfade"
    /\ UNCHANGED <<entry, error, unreadable, reelVars, buildVars, otherSubVars>>

\* The length of what xfade writes: the first input up to the offset (none
\* of it when the offset is not positive), then the whole second input.
XfadeLength(offset, second) == RAdd(RMax(offset, Zero), second)

\* One iteration of the transition loop: current is crossfaded into
\* segment i at offset per_image - transition_dur.
FS_Xfade ==
    /\ pc = "fs_xfade"
    /\ fs.i < Len(fs.segments)
    /\ LET offset     == RSub(fs.per_image, transition_dur)
           transition ==
               FACELESS_TRANSITION_STYLES[((fs.i - 1) % Len(FACELESS_TRANSITION_STYLES)) + 1]
       IN  fs' = [fs EXCEPT !.xfades =
                                Append(@, [style |-> transition, duration |-> transition_dur,
                                           offset |-> offset, first |-> fs.current.duration,
                                           second |-> fs.segments[fs.i + 1].duration]),
                            !.current =
                                [kind |-> "slides",
                                 duration |-> XfadeLength(offset, fs.segments[fs.i + 1].duration)],
                            !.i = @ + 1,
                            !.renders = @ + 1]
    /\ UNCHANGED <<pc, entry, error, unreadable, reelVars, buildVars, otherSubVars>>

FS_SlideshowDone ==
    /\ pc = "fs_xfade"
    /\ ~(fs.i < Len(fs.segments))
    /\ fs' = [fs EXCEPT !.slideshow_clip = fs.current]
    /\ pc' = "fs_outro"
    /\ UNCHANGED <<entry, error, unreadable, reelVars, buildVars, otherSubVars>>

\* _build_outro: the outro video or image, or a text card when the path is
\* no file; either way a clip of outro_duration.
FS_BuildOutro ==
    /\ pc = "fs_outro"
    /\ fs' = [fs EXCEPT !.outro_clip =
                            [kind |-> IF ~isfile(fs.outro_image) THEN "placeholder"
                                      ELSE IF IsVideoPath(fs.outro_image) THEN "video"
                                      ELSE "image",
                             duration |-> RInt(outro_duration)],
                        !.renders = @ + 1]
    /\ pc' = "fs_mix"
    /\ UNCHANGED <<entry, error, unreadable, reelVars, buildVars, otherSubVars>>

\* _concat_and_mix: intro + slideshow + outro, then the audio with
\* -shortest.
FS_ConcatAndMix ==
    /\ pc = "fs_mix"
    /\ LET total == RAdd(RAdd(fs.intro_clip.duration, fs.slideshow_clip.duration),
                         fs.outro_clip.duration)
       IN  fs' = [fs EXCEPT !.final =
                                [kind |-> "reel",
                                 duration |-> IF RLt(fs.audio_duration, total)
                                              THEN fs.audio_duration ELSE total],
                            !.renders = @ + 2]
    /\ pc' = "done"
    /\ UNCHANGED <<entry, error, unreadable, reelVars, buildVars, otherSubVars>>

\* _run_ffmpeg: a non-zero exit raises RuntimeError out of build_reel.
FS_FfmpegFailed ==
    /\ pc \in {"fs_intro", "fs_slideshow", "fs_xfade", "fs_outro", "fs_mix"}
    /\ fs' = [fs EXCEPT !.renders = @ + 1]
    /\ error' = "RuntimeError: FFmpeg failed"
    /\ pc' = "raised"
    /\ UNCHANGED <<entry, unreadable, reelVars, buildVars, otherSubVars>>

NextFaceless ==
    \/ FA_GenerateReel
    \/ FS_BuildReel
    \/ FS_Measure
    \/ FS_BuildIntro
    \/ FS_SlideshowSegments
    \/ FS_Xfade
    \/ FS_SlideshowDone
    \/ FS_BuildOutro
    \/ FS_ConcatAndMix
    \/ FS_FfmpegFailed

SpecFaceless == Init /\ [][NextFaceless]_vars

---------------------------------------------------------------------------
(* Two reel requests at once: langgraph_pipeline.assemble_reel run by two
   processes for two folders.  Both use temp_dir "reel_generator/temp". *)

Requests == {1, 2}

TitlePngPath == <<"title_overlay.png", 0>>

\* The file `path` of the temp directory is written by request r.
Written(dir, paths, r) ==
    {f \in dir : f[1] \notin paths} \cup {<<p, r>> : p \in paths}

\* Who wrote each of `paths` last.
ReadFrom(dir, paths) == {f \in dir : f[1] \in paths}

soloVars == <<error, unreadable, fs, first_plan, reelVars, buildVars, graphVars>>

\* Two pipeline processes reach assemble_reel, each with its own folder,
\* script and title.
CR_Start ==
    /\ pc = "idle"
    /\ \E s1 \in PipelineScripts, s2 \in PipelineScripts,
          t1 \in Titles, t2 \in Titles :
          LET req(folder, script, title) ==
                  [pc |-> "captions", folder |-> folder, script |-> script,
                   title |-> title, caption_images |-> <<>>, title_png |-> NoPath,
                   output_path |-> <<"reel.mp4", folder>>, read |-> {}]
          IN  reqs' = [r \in Requests |->
                          IF r = 1 THEN req(1, s1, t1) ELSE req(2, s2, t2)]
    /\ files' = {}
    /\ entry' = "concurrent"
    /\ pc' = "concurrent"
    /\ UNCHANGED soloVars

\* render_captions_to_images(script_text, temp_dir, ...): caption_<n>.png
\* is saved for every frame.
CR_RenderCaptions(r) ==
    /\ pc = "concurrent"
    /\ reqs[r].pc = "captions"
    /\ LET caps == ImagePaths(render_captions_to_images(reqs[r].script, TRUE))
       IN  /\ files' = Written(files, {caps[k] : k \in DOMAIN caps}, r)
           /\ reqs' = [reqs EXCEPT ![r].caption_images = caps, ![r].pc = "title"]
    /\ UNCHANGED <<pc, entry>>
    /\ UNCHANGED soloVars

\* build_video up to the command: _render_title_png saves
\* temp_dir/title_overlay.png when there is a title; the plan names the
\* caption images and the title image as inputs.
CR_RenderTitle(r) ==
    /\ pc = "concurrent"
    /\ reqs[r].pc = "title"
    /\ IF reqs[r].title # <<>>
       THEN /\ files' = Written(files, {TitlePngPath}, r)
            /\ reqs' = [reqs EXCEPT ![r].title_png = TitlePngPath, ![r].pc = "run"]
       ELSE /\ files' = files
            /\ reqs' = [reqs EXCEPT ![r].pc = "run"]
    /\ UNCHANGED <<pc, entry>>
    /\ UNCHANGED soloVars

\* The ffmpeg run: the inputs of the plan are read as they are on disk
\* now, and the output file is written.
CR_Run(r) ==
    /\ pc = "concurrent"
    /\ reqs[r].pc = "run"
    /\ LET caps  == {reqs[r].caption_images[k] : k \in DOMAIN reqs[r].caption_images}
           title == {reqs[r].title_png} \ {NoPath}
       IN  reqs' = [reqs EXCEPT ![r].read = ReadFrom(files, caps \cup title),
                                ![r].pc = "done"]
    /\ files' = Written(files, {reqs[r].output_path}, r)
    /\ UNCHANGED <<pc, entry>>
    /\ UNCHANGED soloVars

NextConcurrent ==
    \/ CR_Start
    \/ \E r \in Requests : CR_RenderCaptions(r)
    \/ \E r \in Requests : CR_RenderTitle(r)
    \/ \E r \in Requests : CR_Run(r)

SpecConcurrent == Init /\ [][NextConcurrent]_vars

---------------------------------------------------------------------------
(* build_video called twice with the same arguments *)

\* The overlay file was found: the frame nodes are in the graph.
OverlayFound(nodes) ==
    \E k \in DOMAIN nodes : nodes[k].out = <<"v_framed", 0>>

\* The first call has returned.  Its graph and timing are kept, and
\* build_video is called again with the same config, duration, captions,
\* title and segments; _detect_hw_encoder may answer differently (another
\* machine, another ffmpeg build).
BV_Again ==
    /\ pc = "done"
    /\ entry = "direct"
    /\ ~first_plan.taken
    /\ first_plan' = [taken |-> TRUE,
                      filter_parts |-> filter_parts,
                      input_args |-> input_args,
                      outro_offset |-> outro_offset,
                      per_image_duration |-> per_image_duration,
                      caption_times |-> caption_times,
                      hw_encoder |-> hw_encoder,
                      encode_args |-> encode_args]
    /\ hw_encoder' \in HwEncoders
    /\ outro_offset' = Zero
    /\ per_image_duration' = Zero
    /\ inputs' = <<>>
    /\ input_args' = <<>>
    /\ filter_parts' = <<>>
    /\ last_label' = NoLabel
    /\ cumulative_duration' = Zero
    /\ loop_i' = 0
    /\ chunk_windows' = <<>>
    /\ caption_times' = <<>>
    /\ pre_outro_label' = NoLabel
    /\ next_input_idx' = 0
    /\ built' = "none"
    /\ pc' = "bv_start"
    /\ UNCHANGED callerVars
    /\ UNCHANGED <<error, status, encode_args, unreadable, fs, reqs, files>>
    /\ UNCHANGED graphVars

NextRepeat ==
    \/ CallBuildVideo
    \/ BV_Again
    \/ BV_Timing
    \/ BV_Inputs
    \/ BV_Segments
    \/ BV_Xfade
    \/ BV_XfadeDone
    \/ BV_CaptionsSkipped
    \/ BV_CaptionsTypewriter
    \/ BV_CaptionsIndexError
    \/ BV_CaptionsStatic
    \/ BV_SegmentTitles
    \/ BV_SingleTitle
    \/ BV_NoTitle
    \/ BV_Frame
    \/ BV_NoFrame
    \/ BV_Outro
    \/ BV_Audio
    \/ BV_Run

SpecRepeat == Init /\ [][NextRepeat]_vars

---------------------------------------------------------------------------
(* build_video called with any paths: a content path may be the path of the
   intro or of the outro (the logo shown again among the content images). *)

PathDurations == { <<3, 1>>, <<20, 1>> }

\* The content lists of up to MaxMiddle paths drawn from `paths`.
ContentLists(paths) == UNION { [1..n -> paths] : n \in 0..MaxMiddle }

CallBuildVideoPaths ==
    /\ pc = "idle"
    /\ \E d \in PathDurations, intro \in {IntroPath, LogoPath},
          outro \in {OutroPath, OutroVideoPath} :
          \E middle \in ContentLists({<<"img.png", 1>>, <<"img.png", 2>>, intro, outro}) :
            /\ voice_duration' = d
            /\ config' =
                  [intro_image     |-> intro,
                   outro_image     |-> outro,
                   middle_images   |-> middle,
                   voiceover_audio |-> VoicePath,
                   caption_images  |-> <<>>,
                   title           |-> <<>>,
                   script          |-> <<>>,
                   segments        |-> <<>>,
                   use_overlay     |-> FALSE]
    /\ hw_encoder' \in HwEncoders
    /\ entry' = "direct"
    /\ pc' = "bv_start"
    /\ UNCHANGED <<request, voiceover_path, gen_per_image, result, error>>
    /\ UNCHANGED buildVars
    /\ UNCHANGED subVars
    /\ UNCHANGED <<status, encode_args, unreadable>>

\* build_video without captions, title or frame overlay.
NextPaths ==
    \/ CallBuildVideoPaths
    \/ BV_Timing
    \/ BV_Inputs
    \/ BV_Segments
    \/ BV_Xfade
    \/ BV_XfadeDone
    \/ BV_CaptionsSkipped
    \/ BV_NoTitle
    \/ BV_NoFrame
    \/ BV_Outro
    \/ BV_Audio
    \/ BV_Run

SpecPaths == Init /\ [][NextPaths]_vars

---------------------------------------------------------------------------
(* render_captions_to_images called on any script text *)

MaxText == 4

TextChars == {"a", "b", " ", ".", "!", "?"}

\* The script texts of up to MaxText characters.
Texts == UNION { [1..n -> TextChars] : n \in 0..MaxText }

\* render_captions_to_images(script_text, temp_dir, typewriter=...): the
\* chunks it splits the text into and the caption records it returns.
CG_RenderCaptions ==
    /\ pc = "idle"
    /\ \E text \in Texts, typewriter \in BOOLEAN :
          reqs' = << [script |-> text,
                      typewriter |-> typewriter,
                      chunks |-> split_into_chunks(text),
                      caption_data |-> render_captions_to_images(text, typewriter)] >>
    /\ entry' = "captions"
    /\ pc' = "done"
    /\ UNCHANGED <<files, soloVars>>

NextCaptions == CG_RenderCaptions

SpecCaptions == Init /\ [][NextCaptions]_vars

---------------------------------------------------------------------------
(* ReelGenerator.generate called with a long content list: more content
   images than the narration has seconds. *)

ManyImages == 5

ManyScripts == { <<>>, <<"a", "b", " ", "c", ".", " ", "d">> }

CallGenerateMany ==
    /\ pc = "idle"
    /\ \E script \in ManyScripts, n \in 0..ManyImages, title \in Titles,
          external \in {NoPath, ExternalVoicePath} :
            request' = [script |-> script, intro_image |-> IntroPath,
                        outro_image |-> OutroPath,
                        middle_images |-> MiddleImages(n), title |-> title,
                        voiceover_audio |-> external]
    /\ entry' = "generate"
    /\ pc' = "g_voiceover"
    /\ UNCHANGED <<voiceover_path, gen_per_image, result, voice_duration,
                   config, error>>
    /\ UNCHANGED buildVars
    /\ UNCHANGED extVars

NextMany ==
    \/ CallGenerateMany
    \/ G_ExternalVoiceover
    \/ G_TtsVoiceover
    \/ G_TtsFailed
    \/ G_Measure
    \/ G_Captions
    \/ G_Return
    \/ BV_Timing
    \/ BV_Inputs
    \/ BV_Segments
    \/ BV_Xfade
    \/ BV_XfadeDone
    \/ BV_CaptionsSkipped
    \/ BV_CaptionsTypewriter
    \/ BV_SingleTitle
    \/ BV_NoTitle
    \/ BV_Frame
    \/ BV_NoFrame
    \/ BV_Outro
    \/ BV_Audio
    \/ BV_Run

SpecMany == Init /\ [][NextMany]_vars

---------------------------------------------------------------------------
(* langgraph_pipeline: the graph of run_pipeline.  Every node is one step
   on the PipelineState; of build_video only whether it raised reaches the
   state, its plan is the subject of SpecEntry. *)

MaxFolders == 3

\* article_001 .. article_<MaxFolders>
Folders == 1..MaxFolders

\* What a folder of drive_downloads/ (or the documents of an article in
\* the database) holds: nothing, an article with images, an empty article,
\* an article without images, an article file that cannot be decoded.
FolderKinds == {"absent", "ok", "empty_text", "no_images", "undecodable"}

\* The elements of a set of folders in ascending order.
Sorted(S) ==
    [i \in 1..Cardinality(S) |->
        CHOOSE f \in S : Cardinality({g \in S : g < f}) = i - 1]

\* get_article_previews / the content documents: the folders whose article
\* text could be read, in listing order.
Previews(e) == Sorted({f \in Folders : e.drive[f] \in {"ok", "empty_text", "no_images"}})

Keys(previews) == {previews[i] : i \in DOMAIN previews}

\* list[:count]
Take(list, count) == SubSeq(list, 1, Min(count, Len(list)))

\* What the parsing of the LLM's answer can leave in `selected`: the names
\* of the answer that are previews, cut to count; none when the answer
\* holds no valid name.
Selections(previews, count) ==
    UNION { [1..n -> Keys(previews)] : n \in 0..count }

\* should_select
should_select(s) ==
    IF s.error # "" THEN "finish"
    ELSE IF s.selected_folders # <<>> THEN "generate_script"
    ELSE "prompt_user"

\* after_prompt
after_prompt(s) ==
    IF s.target_count >= Len(s.previews) THEN "use_all" ELSE "select_articles"

\* has_more_articles
has_more_articles(s) ==
    IF s.current_folder_idx < Len(s.selected_folders) THEN "generate_script" ELSE "finish"

\* _add_result: a result entry for a folder is appended.
add_result(s, folder, st, err) ==
    [s EXCEPT !.results = Append(@, [folder |-> folder, status |-> st, error |-> err])]

\* updated[-1] = {**current_result, "status": ..., "error": ...}
update_last(s, st, err) ==
    [s EXCEPT !.results[Len(s.results)] = [@ EXCEPT !.status = st, !.error = err]]

\* The variables of the reel builder, which the graph steps leave alone.
builderVars == <<unreadable, fs, first_plan, reqs, files, reelVars, buildVars>>

\* The node returned: the state is updated and the edge is followed.
Returned(node, new, next) ==
    /\ state' = new
    /\ visited' = Append(visited, <<node, state.current_folder_idx>>)
    /\ pc' = next
    /\ UNCHANGED <<entry, error, env>>
    /\ UNCHANGED builderVars

\* The node raised: app.invoke propagates the exception and the run ends.
Raised(node, exc) ==
    /\ visited' = Append(visited, <<node, state.current_folder_idx>>)
    /\ error' = exc
    /\ pc' = "raised"
    /\ UNCHANGED <<entry, state, env>>
    /\ UNCHANGED builderVars

\* run_pipeline: the initial state, with what the run will find.  A count
\* given together with a folder name is not looked at, a closed stdin only
\* matters to the interactive prompt, and the database only to a --mongo
\* run.
run_pipeline ==
    /\ pc = "idle"
    /\ \E folder_name \in {NoFolder} \cup Folders, count \in 0..MaxFolders,
          mongo \in BOOLEAN, drive \in [Folders -> FolderKinds],
          stdin \in {"tty", "eof"}, mongo_up \in BOOLEAN :
          /\ folder_name # NoFolder => count = 0
          /\ stdin = "eof" => (count = 0 /\ folder_name = NoFolder)
          /\ ~mongo => mongo_up
          /\ mongo => \A f \in Folders : drive[f] # "undecodable"
          /\ state' = [NoPipelineState EXCEPT !.folder_name = folder_name,
                                              !.target_count = count,
                                              !.use_mongo = mongo]
          /\ env' = [drive |-> drive, stdin |-> stdin, mongo_up |-> mongo_up]
    /\ entry' = "graph"
    /\ pc' = "download_drive"
    /\ UNCHANGED <<error, visited>>
    /\ UNCHANGED builderVars

\* Node 1: the articles come from the database or from drive_downloads/.
download_drive ==
    /\ pc = "download_drive"
    /\ LET previews == Previews(env)
           folder   == state.folder_name
           fail(msg)  == [state EXCEPT !.error = msg]
           done(new)  == Returned("download_drive", new, should_select(new))
       IN  IF state.use_mongo
           THEN IF ~env.mongo_up
                THEN done(fail("Could not connect to MongoDB Atlas."))
                ELSE IF previews = <<>>
                THEN done(fail("No articles found in MongoDB 'content' collection."))
                ELSE IF folder # NoFolder
                THEN IF folder \notin Keys(previews)
                     THEN done(fail("Article not found in MongoDB."))
                     ELSE done([state EXCEPT !.selected_folders = <<folder>>,
                                             !.previews = previews])
                ELSE done([state EXCEPT !.previews = previews])
           ELSE \E download_ok \in BOOLEAN :
                IF ~download_ok /\ \A f \in Folders : env.drive[f] = "absent"
                THEN Raised("download_drive", "download failed")
                ELSE IF folder # NoFolder
                THEN IF env.drive[folder] = "absent"
                     THEN done(fail("Subfolder not found in drive_downloads/."))
                     ELSE done([state EXCEPT !.selected_folders = <<folder>>])
                ELSE IF previews = <<>>
                THEN done(fail("No articles found in any subfolder!"))
                ELSE done([state EXCEPT !.previews = previews])

\* Node 1b: the count of the command line, cut to the number of articles,
\* or the count typed at the prompt.  The prompt is repeated until a number
\* from 1 to the number of articles is read; on a closed stdin every read
\* fails and the loop does not end.
prompt_user ==
    /\ pc = "prompt_user"
    /\ LET num_articles == Len(state.previews)
           done(count)  == LET new == [state EXCEPT !.target_count = count]
                           IN  Returned("prompt_user", new, after_prompt(new))
       IN  IF state.target_count > 0
           THEN done(Min(state.target_count, num_articles))
           ELSE /\ env.stdin = "tty"
                /\ \E count \in 1..num_articles : done(count)

\* use_all_articles
use_all_articles ==
    /\ pc = "use_all"
    /\ Returned("use_all", [state EXCEPT !.selected_folders = state.previews],
                "generate_script")

\* Node 2: all the articles when there are no more than count; else what
\* one of three answers of the LLM leaves, and the first count articles
\* when none leaves a valid name.
select_articles ==
    /\ pc = "select_articles"
    /\ LET count   == state.target_count
           done(l) == Returned("select_articles",
                               [state EXCEPT !.selected_folders = l], "generate_script")
       IN  IF Len(state.previews) <= count
           THEN done(state.previews)
           ELSE \E selected \in Selections(state.previews, count) :
                   IF selected # <<>> THEN done(selected)
                   ELSE done(Take(state.previews, count))

\* Node 3: the article and the images of the current folder are read and
\* the script is asked of the LLM, up to three times.
generate_script ==
    /\ pc = "generate_script"
    /\ LET idx == state.current_folder_idx
       IN  IF idx + 1 \notin DOMAIN state.selected_folders
           THEN Raised("generate_script", "IndexError: list index out of range")
           ELSE LET folder     == state.selected_folders[idx + 1]
                    kind       == env.drive[folder]
                    done(s, e) == Returned("generate_script",
                                           add_result(state, folder, s, e),
                                           "generate_voiceover")
                IN  IF ~state.use_mongo /\ kind = "absent"
                    THEN Raised("generate_script", "FileNotFoundError")
                    ELSE IF kind = "undecodable"
                    THEN Raised("generate_script", "UnicodeDecodeError")
                    ELSE IF kind \in {"empty_text", "absent"}
                    THEN done("failed", "No article text found")
                    ELSE IF kind = "no_images"
                    THEN done("failed", "No images found")
                    ELSE \E llm_ok \in BOOLEAN :
                            IF llm_ok THEN done("script_done", "")
                            ELSE done("failed", "Script generation failed")

\* Node 4: nothing for a failed result; else the voice track, synthesized
\* or the mock one on a quota error, or "failed" on another TTS error.
generate_voiceover ==
    /\ pc = "generate_voiceover"
    /\ IF state.results = <<>>
       THEN Raised("generate_voiceover", "IndexError: list index out of range")
       ELSE IF state.results[Len(state.results)].status = "failed"
       THEN Returned("generate_voiceover", state, "assemble_reel")
       ELSE \E tts_ok \in BOOLEAN :
               IF tts_ok
               THEN Returned("generate_voiceover", update_last(state, "audio_done", ""),
                             "assemble_reel")
               ELSE Returned("generate_voiceover", update_last(state, "failed", "TTS failed"),
                             "assemble_reel")

\* Node 5: nothing for a failed result; else build_video is called, and
\* the result is "success" unless it raised.
assemble_reel ==
    /\ pc = "assemble_reel"
    /\ IF state.results = <<>>
       THEN Raised("assemble_reel", "IndexError: list index out of range")
       ELSE IF state.results[Len(state.results)].status = "failed"
       THEN Returned("assemble_reel", state, "advance")
       ELSE \E build_raised \in BOOLEAN :
               IF build_raised
               THEN Returned("assemble_reel",
                             update_last(state, "failed", "VideoBuilder failed"), "advance")
               ELSE Returned("assemble_reel", update_last(state, "success", ""), "advance")

\* advance_or_finish, and the edge has_more_articles chooses.
advance_or_finish ==
    /\ pc = "advance"
    /\ LET new == [state EXCEPT !.current_folder_idx = @ + 1]
       IN  Returned("advance", new, has_more_articles(new))

\* print_summary, then END.
print_summary ==
    /\ pc = "finish"
    /\ Returned("finish", state, "end")

NextGraph ==
    \/ run_pipeline
    \/ download_drive
    \/ prompt_user
    \/ use_all_articles
    \/ select_articles
    \/ generate_script
    \/ generate_voiceover
    \/ assemble_reel
    \/ advance_or_finish
    \/ print_summary

SpecGraph == Init /\ [][NextGraph]_vars

\* app.invoke runs the graph to its end: a node that can run does run.
SpecGraphFair == SpecGraph /\ WF_vars(NextGraph)

---------------------------------------------------------------------------
(* Reading a plan *)

NumMiddle == Len(config.middle_images)

NodesOut(label) == {k \in DOMAIN filter_parts : filter_parts[k].out = label}
NodesOp(op)     == {k \in DOMAIN filter_parts : filter_parts[k].op = op}

FinalNodes   == NodesOut(<<"v_final", 0>>)
AudioNodes   == NodesOp("atrim_adelay")
CaptionNodeIdx == {k \in DOMAIN filter_parts : filter_parts[k].out[1] = "v_cap"}
TitleNodeIdx ==
    {k \in DOMAIN filter_parts : filter_parts[k].out[1] \in {"v_title", "v_titled"}}

\* The plan is complete once its audio node is in place.
PlanComplete == FinalNodes # {} /\ AudioNodes # {}

\* The timing math has run.
TimingDone == per_image_duration # Zero

\* The transition loop has placed its last crossfade.
LoopDone == inputs # <<>> /\ loop_i = Len(inputs) - 1

RECURSIVE RSum(_)
RSum(s) == IF s = <<>> THEN Zero ELSE RAdd(Head(s), RSum(Tail(s)))

RAbs(x) == <<Abs(x[1]), x[2]>>

IsHundredths(x) == 100 % x[2] = 0

---------------------------------------------------------------------------
(* C1 *)

---------------------------------------------------------------------------
(* C2 *)

XfadeDurations ==
    LET idx == NodesOp("xfade")
    IN  [k \in 1..Len(filter_parts) |->
            IF k \in idx THEN filter_parts[k].duration ELSE Zero]

\* Intro clip + one per_image_duration per pan-zoom segment + outro clip.
SegmentSum ==
    RAdd(RAdd(RInt(input_args[1].t),
              RMul(RInt(Cardinality(NodesOp("scale_crop_zoompan"))), per_image_duration)),
         RInt(input_args[Len(inputs)].t))

\* C2: in a complete plan with N >= 1 content images there are N + 1
\* crossfades, and the segment durations minus the time the crossfades
\* overlap add up to introDuration + D + outroDuration, the
\* final_video_duration generate reports.
C2_TimelineTotal ==
    /\ (PlanComplete /\ NumMiddle >= 1) =>
          /\ Cardinality(NodesOp("xfade")) = NumMiddle + 1
          /\ RSub(SegmentSum, RSum(XfadeDurations))
               = RAdd(RAdd(RInt(INTRO_DURATION), voice_duration), RInt(OutroSeconds))
    /\ (entry = "generate" /\ pc = "done") =>
          result.final_video_duration = RSub(SegmentSum, RSum(XfadeDurations))

C2_Witness ==
    /\ entry = "generate"
    /\ pc = "done"
    /\ NumMiddle = 3
    /\ voice_duration = <<121, 40>>

---------------------------------------------------------------------------
(* C3 *)

\* C3: once the transition loop has placed all N >= 1 content crossfades,
\* cumulative_duration = outro_offset + TRANSITION_DURATION.
C3_CumulativeAtOutro ==
    (LoopDone /\ NumMiddle >= 1) =>
        /\ Cardinality(NodesOp("xfade") \ FinalNodes) = NumMiddle
        /\ cumulative_duration = RAdd(outro_offset, T_DUR)

C3_Witness ==
    /\ pc = "bv_xfade"
    /\ LoopDone
    /\ NumMiddle = 3
    /\ voice_duration = <<3, 1>>

---------------------------------------------------------------------------
(* C4 *)

\* C4: per_image_duration = (D + T) / N + T for N >= 1, that is
\* N * (per_image_duration - T) = D + T; it is 5 s for N = 0; and D = 20,
\* N = 4 gives 6.25 s with the outro offset at 23 s.
C4_PerImageDuration ==
    TimingDone =>
        /\ NumMiddle >= 1 =>
              RMul(RInt(NumMiddle), RSub(per_image_duration, T_DUR))
                = RAdd(voice_duration, T_DUR)
        /\ NumMiddle = 0 => per_image_duration = <<5, 1>>
        /\ (NumMiddle = 4 /\ voice_duration = <<20, 1>>) =>
              /\ per_image_duration = <<25, 4>>
              /\ outro_offset = <<23, 1>>

C4_Witness ==
    /\ TimingDone
    /\ NumMiddle = 4
    /\ voice_duration = <<20, 1>>
    /\ per_image_duration = <<25, 4>>


---------------------------------------------------------------------------
(* C5 *)

\* C5: a complete plan has exactly one audio node; it trims from 0,
\* delays the track by introDuration, and the narration as the plan states
\* it (delay + trim end) ends exactly where the outro crossfade starts.
C5_NarrationEndsAtOutro ==
    PlanComplete =>
        /\ Cardinality(AudioNodes) = 1
        /\ \A a \in AudioNodes, f \in FinalNodes :
              /\ filter_parts[a].start = Zero
              /\ filter_parts[a].offset = RInt(INTRO_DURATION)
              /\ RAdd(filter_parts[a].offset, filter_parts[a].end)
                   = filter_parts[f].offset

---------------------------------------------------------------------------
(* C6 *)

\* The caption stage has ended normally: v_captioned is defined.
CaptionStageDone == NodesOut(<<"v_captioned", 0>>) # {}

\* C6: when the script has at least one chunk and the caption range is not
\* empty, the chunk windows are one per chunk in chunk order, the first
\* starts at introDuration, each has positive length and starts where the
\* previous one ends, and the last ends at introDuration + D.
C6_ChunkWindowsTile ==
    (CaptionStageDone /\ CaptionsWanted /\ ScriptChunks # <<>>) =>
        LET w == chunk_windows
            n == Len(w)
        IN  /\ n = Len(ScriptChunks)
            /\ w[1][1] = RInt(INTRO_DURATION)
            /\ \A k \in 1..n : RLt(w[k][1], w[k][2])
            /\ \A k \in 1..(n - 1) : w[k][2] = w[k + 1][1]
            /\ w[n][2] = RAdd(RInt(INTRO_DURATION), voice_duration)

C6_Witness ==
    /\ CaptionStageDone
    /\ CaptionsWanted
    /\ Len(chunk_windows) = 2
    /\ voice_duration = <<121, 40>>
    /\ RSub(chunk_windows[1][2], chunk_windows[1][1])
         # RSub(chunk_windows[2][2], chunk_windows[2][1])

---------------------------------------------------------------------------
(* C7 *)

WordsBefore(chunks, ci) == SumSeq([k \in 1..(ci - 1) |-> Len(Words(chunks[k]))])

\* C7: in typewriter mode, within every chunk the word windows start at
\* the chunk's start, have positive length, each starts where the previous
\* one ends, the last ends at the chunk's end, and the length of a word's
\* window is to the chunk's length as max(len(word), 2) is to the sum of
\* these weights over the chunk.
C7_TypewriterWordWindows ==
    (CaptionStageDone /\ CaptionsWanted /\ is_typewriter) =>
        \A ci \in 1..Len(ScriptChunks) :
            LET words  == Words(ScriptChunks[ci])
                base   == WordsBefore(ScriptChunks, ci)
                cstart == chunk_windows[ci][1]
                cend   == chunk_windows[ci][2]
                total  == SumSeq([k \in 1..Len(words) |-> Max(Len(words[k]), 2)])
            IN  \A wi \in 1..Len(words) :
                    (base + wi <= num_captions) =>
                        LET tw == caption_times[base + wi]
                        IN  /\ wi = 1 => tw[1] = cstart
                            /\ RLt(tw[1], tw[2])
                            /\ (wi < Len(words) /\ base + wi + 1 <= num_captions)
                                  => caption_times[base + wi + 1][1] = tw[2]
                            /\ wi = Len(words) => tw[2] = cend
                            /\ RMul(RSub(tw[2], tw[1]), RInt(total))
                                 = RMul(RInt(Max(Len(words[wi]), 2)), RSub(cend, cstart))

\* Two chunks of three and two words, with one-letter words among them,
\* every word with its own caption image.
C7_Witness ==
    /\ CaptionStageDone
    /\ CaptionsWanted
    /\ is_typewriter
    /\ Len(ScriptChunks) = 2
    /\ num_captions = 5
    /\ Len(caption_times) = 5
    /\ voice_duration = <<3, 1>>

---------------------------------------------------------------------------
(* C8 *)

\* The render clock takes the timestamps of the output frames.
LastFrame ==
    RFloor(RMul(RAdd(RAdd(RInt(INTRO_DURATION), voice_duration), RInt(OutroSeconds)),
                RInt(OutputFps)))
FrameInstants == {Rat(k, OutputFps) : k \in 0..LastFrame}

\* ffmpeg's between(t, start, end): start <= t <= end.
Enabled(node, t) == RLe(node.start, t) /\ RLe(t, node.end)

\* C8: every caption and title overlay is enabled exactly at the frame
\* times t with start <= t < end, and no two caption overlays are enabled
\* at the same frame time.
C8_HalfOpenWindows ==
    \A t \in FrameInstants :
        /\ \A k \in CaptionNodeIdx \cup TitleNodeIdx :
              Enabled(filter_parts[k], t)
                <=> (RLe(filter_parts[k].start, t) /\ RLt(t, filter_parts[k].end))
        /\ Cardinality({k \in CaptionNodeIdx : Enabled(filter_parts[k], t)}) <= 1

---------------------------------------------------------------------------
(* C9 *)

ZeroCaptionWindows ==
    \/ ScriptChunks = <<>>
    \/ num_captions = 0
    \/ ~RLt(caption_start, caption_end)

\* The caption stage has been entered and left, normally or not.
CaptionStageLeft ==
    /\ NodesOut(<<"v_base_middle", 0>>) # {}
    /\ pc # "bv_captions"

\* C9: with zero caption windows build_video raises nothing, emits no
\* caption overlay, and the caption stage is the single passthrough from
\* v_base_middle to v_captioned; v_captioned is defined exactly once in
\* every plan.
C9_ZeroWindowsPassthrough ==
    CaptionStageLeft =>
        /\ ZeroCaptionWindows =>
              /\ built # "raised"
              /\ CaptionNodeIdx = {}
              /\ \E k \in DOMAIN filter_parts :
                    filter_parts[k] = NullNode(<<"v_base_middle", 0>>, <<"v_captioned", 0>>)
        /\ Cardinality(NodesOut(<<"v_captioned", 0>>)) = 1

---------------------------------------------------------------------------
(* C10 *)

\* generate has measured the narration.
Measured ==
    /\ entry = "generate"
    /\ pc \notin {"g_voiceover", "g_measure"}
    /\ error # "RuntimeError: Voiceover generation failed."

\* C10: once generate has measured a narration shorter than 3 s it has
\* raised and build_video is never entered; with a narration of exactly
\* 3 s and at least one content image it raises no ValueError, goes on to
\* build_video, and has a complete plan when build_video returns.
C10_MinimumNarration ==
    Measured =>
        /\ RLt(voice_duration, RInt(3)) =>
              /\ pc = "raised"
              /\ error = "ValueError: Voice duration too short (minimum 3 seconds)."
              /\ config = NoConfig
              /\ ~TimingDone
              /\ filter_parts = <<>>
              /\ built = "none"
        /\ (voice_duration = RInt(3) /\ Len(request.middle_images) >= 1) =>
              /\ error \in {"", "RuntimeError: Video construction failed."}
              /\ pc \in {"g_captions", "bv_start", "bv_inputs", "bv_segments",
                         "bv_xfade", "bv_captions", "bv_title", "bv_frame",
                         "bv_outro", "bv_audio", "bv_run", "g_return", "done",
                         "raised"}
              /\ pc \in {"g_return", "done", "raised"} => PlanComplete

\* One unit below the minimum: generate has raised.
C10_Witness ==
    /\ Measured
    /\ voice_duration = <<119, 40>>
    /\ Len(request.middle_images) >= 1
    /\ pc = "raised"

---------------------------------------------------------------------------
(* C11 *)

\* build_video has just been called by one of the entry paths.
Invoked == pc = "bv_start"

\* C11: on every entry path that builds a reel (ReelGenerator.generate,
\* the LangGraph assemble_reel node, create_reel_from_cloud,
\* run_combined_pipeline), build_video is never invoked with a narration
\* shorter than the 3-second minimum or with no content image.
\* Refuted: only generate checks either; assemble_reel and the combined
\* pipeline pass on whatever the voice track measures, and
\* create_reel_from_cloud also passes on an empty image list.
C11_NoDegenerateInvocation ==
    Invoked =>
        /\ ~TooShort(voice_duration)
        /\ Len(config.middle_images) > 0
---------------------------------------------------------------------------
(* C12 *)

\* The content paths of the call that name a readable file, in order.
ReadableContent == SelectSeq(config.middle_images, isfile)

\* C12: the segment count N of build_video's duration math is the number
\* of readable content paths; unreadable paths are removed before N is
\* taken and the others keep their order.
\* Refuted for build_video: num_middle = len(middle_imgs) counts every
\* path and every path becomes an ffmpeg input.
C12_ReadableSegmentCount ==
    /\ TimingDone =>
            per_image_duration = PerImageDuration(Len(ReadableContent), voice_duration)
    /\ inputs # <<>> =>
            inputs = <<config.intro_image>> \o ReadableContent \o <<config.outro_image>>
---------------------------------------------------------------------------
(* C13 *)

\* The call of the faceless service or agent is over.
FacelessOver == entry \in {"agent", "service"} /\ pc \in {"done", "raised"}

\* No content path of the call names a readable file.
NoUsableContent == SelectSeq(fs.images, isfile) = <<>>

\* C13: when no content path is usable (the list is empty or every path
\* is unreadable) reel generation ends with an error and nothing is
\* rendered, through FacelessReelAgent.generate_reel as through
\* FacelessVideoService.build_reel.
\* Refuted for build_reel: _build_slideshow renders a black clip in place
\* of the slideshow and the reel is produced.
C13_NoContentFails ==
    (FacelessOver /\ NoUsableContent) => (error # "" /\ fs.renders = 0)
---------------------------------------------------------------------------
(* C14 *)

\* The intro and outro inputs of the ffmpeg command.
IntroOutroArgs ==
    {k \in DOMAIN input_args :
        input_args[k].file \in {config.intro_image, config.outro_image}}

\* C14: a missing or unreadable intro or outro file never makes the build
\* fail; a placeholder stands in for it, so the missing path is never an
\* input of the render.
\* Refuted for build_video: the intro and outro paths go into the ffmpeg
\* command as they are, and ffmpeg fails on the missing one.
C14_MissingIntroOutroReplaced ==
    \A k \in IntroOutroArgs : isfile(input_args[k].file)
---------------------------------------------------------------------------
(* C15 *)

\* The ffmpeg run of build_video has failed.
RenderFailed == built = "False"

\* The entry path has finished and reports a reel: generate has returned
\* its result, or the caller has recorded or printed success.
ReportsSuccess ==
    /\ pc = "done"
    /\ \/ entry = "generate"
       \/ status = "success"

\* C15: when the ffmpeg run started by build_video fails, no entry path
\* (ReelGenerator.generate, assemble_reel, create_reel_from_cloud,
\* run_combined_pipeline) records or reports success for that reel.
\* Refuted: assemble_reel and create_reel_from_cloud do not look at
\* build_video's return value.
C15_RenderFailureSurfaced == RenderFailed => ~ReportsSuccess
---------------------------------------------------------------------------
(* C16 *)

\* C16: two requests processed concurrently share no mutable state: under
\* every interleaving, the caption images, the title image and the output
\* file of a request's plan are the ones that request wrote.
\* Refuted: both requests write caption_<n>.png and title_overlay.png in
\* the same temp directory, so a render can read the other request's
\* images.
C16_RequestsIsolated ==
    \A r \in DOMAIN reqs :
        /\ \A f \in reqs[r].read : f[2] = r
        /\ reqs[r].pc = "done" =>
               \E f \in files : f[1] = reqs[r].output_path /\ f[2] = r
---------------------------------------------------------------------------
(* C17 *)

\* The second of two calls with the same arguments has returned.
SecondDone == first_plan.taken /\ pc = "done"

SameGraph ==
    /\ filter_parts = first_plan.filter_parts
    /\ input_args = first_plan.input_args
    /\ outro_offset = first_plan.outro_offset
    /\ per_image_duration = first_plan.per_image_duration
    /\ caption_times = first_plan.caption_times

---------------------------------------------------------------------------
(* C18 *)

SinkLabels == {<<"v_final", 0>>, <<"a_delayed", 0>>}

\* A raw stream of an ffmpeg input: [i:v] or [i:a].
IsRawStream(label) == label[1] \in {"in:v", "in:a"}

\* The places (node, position) where `label` is taken as an input.
Consumers(label) ==
    {p \in (DOMAIN filter_parts) \X (1..2) :
        /\ p[2] \in DOMAIN filter_parts[p[1]].ins
        /\ filter_parts[p[1]].ins[p[2]] = label}

LabelsUnique ==
    \A j \in DOMAIN filter_parts, k \in DOMAIN filter_parts :
        filter_parts[j].out = filter_parts[k].out => j = k

InputsProducedEarlier ==
    \A k \in DOMAIN filter_parts :
        \A p \in DOMAIN filter_parts[k].ins :
            \/ IsRawStream(filter_parts[k].ins[p])
            \/ \E j \in 1..(k - 1) : filter_parts[j].out = filter_parts[k].ins[p]

ConsumedOnce ==
    \A k \in DOMAIN filter_parts :
        filter_parts[k].out \notin SinkLabels =>
            /\ Cardinality(Consumers(filter_parts[k].out)) = 1
            /\ \A p \in Consumers(filter_parts[k].out) : p[1] > k

\* C18: in every plan build_video emits, node labels are unique, every
\* input label of a node is a raw input stream or is produced by an earlier
\* node, and every produced label other than v_final and a_delayed is
\* consumed by exactly one later node.
C18_SingleSinkDag ==
    /\ LabelsUnique
    /\ InputsProducedEarlier
    /\ PlanComplete => ConsumedOnce

\* A complete plan with two content segments, caption overlays, a title
\* and the frame overlay.
C18_Witness ==
    /\ PlanComplete
    /\ NumMiddle = 2
    /\ CaptionNodeIdx # {}
    /\ TitleNodeIdx # {}
    /\ OverlayFound(filter_parts)
    /\ Len(filter_parts) >= 10
---------------------------------------------------------------------------
(* C19 *)

\* The content crossfades: node k of them produces v_join_<k>.
ContentXfades == {k \in DOMAIN filter_parts : filter_parts[k].out[1] = "v_join"}

\* introDuration + (k - 1) * (perSegmentDuration - T) - T
ContentXfadeStart(k) ==
    RSub(RAdd(RInt(INTRO_DURATION),
              RMul(RInt(k - 1), RSub(per_image_duration, T_DUR))),
         T_DUR)

\* C19, as stated: the k-th content crossfade starts at exactly
\* introDuration + (k - 1) * (perSegmentDuration - T) - T.
\* Refuted: the offset is written with two decimals.
C19_ContentOffsetsExact ==
    \A j \in ContentXfades :
        filter_parts[j].offset = ContentXfadeStart(filter_parts[j].out[2])

\* C19, amended: the k-th content crossfade starts at
\* introDuration + (k - 1) * (perSegmentDuration - T) - T rendered to two
\* decimal places (within 0.005 s of it, and exactly it when it is a whole
\* number of hundredths); the computed start is strictly before
\* introDuration + D, and the rendered one is not after the outro
\* crossfade's offset.
C19_ContentOffsetsRounded ==
    \A j \in ContentXfades :
        LET k     == filter_parts[j].out[2]
            start == ContentXfadeStart(k)
            off   == filter_parts[j].offset
        IN  /\ filter_parts[j].op = "xfade"
            /\ k \in 1..NumMiddle
            /\ off = Fmt2(start)
            /\ IsHundredths(off)
            /\ RLe(RAbs(RSub(off, start)), <<1, 200>>)
            /\ IsHundredths(start) => off = start
            /\ RLt(start, RAdd(RInt(INTRO_DURATION), voice_duration))
            /\ \A f \in FinalNodes : RLe(off, filter_parts[f].offset)

\* A complete plan with three content crossfades whose second and third
\* starts are not whole hundredths.
C19_Witness ==
    /\ PlanComplete
    /\ NumMiddle = 3
    /\ Cardinality(ContentXfades) = 3
    /\ \E j \in ContentXfades :
          /\ filter_parts[j].out[2] = 3
          /\ ~IsHundredths(ContentXfadeStart(3))
          /\ filter_parts[j].offset # ContentXfadeStart(3)
---------------------------------------------------------------------------
(* C20 *)

\* C20: in _build_slideshow with n >= 2 valid images, the k-th crossfade
\* starts at the running merged clip's duration minus transition_dur, so
\* that no image already merged is cut off by a later crossfade.
\* Refuted: every crossfade starts at per_image - transition_dur, which is
\* the end of the merged clip only for the first one.
C20_XfadeAtRunningEnd ==
    \A k \in DOMAIN fs.xfades :
        fs.xfades[k].offset = RSub(fs.xfades[k].first, transition_dur)
---------------------------------------------------------------------------
(* C21 *)

\* The scale / pan-zoom nodes are in place.
SegmentsBuilt == inputs # <<>> /\ Len(filter_parts) >= Len(inputs)

\* C21: the content segment at 0-based position k gets the zoom-in transform
\* when k is even and the zoom-out transform when k is odd, for every content
\* list and every intro and outro path.
\* Refuted: a content path equal to the intro or outro path is taken for
\* the intro or the outro and gets no pan-zoom at all.
C21_ZoomByParity ==
    SegmentsBuilt =>
        \A k \in 0..(NumMiddle - 1) :
            /\ filter_parts[k + 2].op = "scale_crop_zoompan"
            /\ filter_parts[k + 2].style = IF k % 2 = 0 THEN "zoom_in" ELSE "zoom_out"
---------------------------------------------------------------------------
(* C22 *)

CaptionedLabel == <<"v_captioned", 0>>

\* The nodes that take the captioned video as their first or second input.
CaptionedConsumers ==
    {k \in DOMAIN filter_parts :
        \E p \in DOMAIN filter_parts[k].ins : filter_parts[k].ins[p] = CaptionedLabel}

TitleGiven == config.title # <<>> \/ config.segments # <<>>

\* C22: a title overlay takes the captioned video as its base input, after
\* every caption overlay (with per-segment titles the first takes
\* v_captioned and each next one the title node before it); without title
\* text and without segment titles there is no title node and the stage
\* after the captions (frame overlay or outro crossfade) takes v_captioned.
C22_TitleAfterCaptions ==
    /\ \A k \in TitleNodeIdx :
          /\ TitleGiven
          /\ filter_parts[k].op = "overlay"
          /\ \A c \in CaptionNodeIdx : c < k
          /\ \E j \in 1..(k - 1) : filter_parts[j].out = CaptionedLabel
          /\ IF k - 1 \in TitleNodeIdx
             THEN filter_parts[k].ins[1] = filter_parts[k - 1].out
             ELSE filter_parts[k].ins[1] = CaptionedLabel
          /\ filter_parts[k].ins[2][1] = "in:v"
    /\ PlanComplete =>
          /\ Cardinality(CaptionedConsumers) = 1
          /\ TitleGiven => CaptionedConsumers \subseteq TitleNodeIdx
          /\ ~TitleGiven =>
                /\ TitleNodeIdx = {}
                /\ \A k \in CaptionedConsumers :
                      /\ filter_parts[k].ins[1] = CaptionedLabel
                      /\ filter_parts[k].out \in {<<"v_framed", 0>>, <<"v_final", 0>>}

\* A complete plan with several caption overlays and a title over them.
C22_Witness ==
    /\ PlanComplete
    /\ Cardinality(CaptionNodeIdx) >= 2
    /\ config.title # <<>>
    /\ \E k \in TitleNodeIdx : filter_parts[k].ins[1] = CaptionedLabel
---------------------------------------------------------------------------
(* C23 *)

\* len(chunk.split()) of every chunk of the script, and their sum.
WordCountOf(i) == Len(Words(ScriptChunks[i]))
TotalWordCount == SumSeq([i \in 1..Len(ScriptChunks) |-> WordCountOf(i)])

\* C23: the duration of chunk i's window is
\* (wordCount_i / totalWordCount) * (rangeEnd - rangeStart), the word count
\* being the number of whitespace-separated words of the chunk.
C23_ChunkWindowDuration ==
    chunk_windows # <<>> =>
        /\ Len(chunk_windows) = Len(ScriptChunks)
        /\ \A i \in DOMAIN chunk_windows :
              /\ WordCountOf(i) >= 1
              /\ RSub(chunk_windows[i][2], chunk_windows[i][1]) =
                    RMul(Rat(WordCountOf(i), TotalWordCount),
                         RSub(caption_end, caption_start))

\* Three chunks of one, one and two words: the last window is twice as long.
C23_Witness ==
    /\ Len(chunk_windows) = 3
    /\ WordCountOf(3) = 2
    /\ WordCountOf(1) = 1
    /\ RSub(chunk_windows[3][2], chunk_windows[3][1]) =
          RMul(RInt(2), RSub(chunk_windows[1][2], chunk_windows[1][1]))
---------------------------------------------------------------------------
(* C24 *)

\* The caption images are the ones render_captions_to_images makes in
\* static mode from the script of the call: one per chunk.
StaticRendered ==
    /\ ScriptChunks # <<>>
    /\ config.caption_images = ImagePaths(render_captions_to_images(config.script, FALSE))

\* The overlay node of caption image i (0-based).
CaptionNodeOf(i) == CHOOSE k \in CaptionNodeIdx : filter_parts[k].out = <<"v_cap", i>>

\* C24, as stated: in static mode caption i is enabled over exactly chunk
\* i's window.
\* Refuted: the bounds of the enable window are written with two decimals.
C24_StaticFullWindowExact ==
    (CaptionStageDone /\ CaptionsWanted /\ StaticRendered) =>
        \A i \in 1..num_captions :
            /\ filter_parts[CaptionNodeOf(i - 1)].start = chunk_windows[i][1]
            /\ filter_parts[CaptionNodeOf(i - 1)].end = chunk_windows[i][2]

\* C24, amended: in static mode there is one caption per chunk, caption i
\* gets the whole window of chunk i with no sub-division, and its overlay
\* node is enabled between that window's start and end, each written with
\* two decimals.
C24_StaticFullWindowRounded ==
    (CaptionStageDone /\ CaptionsWanted /\ StaticRendered) =>
        /\ num_captions = Len(ScriptChunks)
        /\ Len(caption_times) = num_captions
        /\ Cardinality(CaptionNodeIdx) = num_captions
        /\ \A i \in 1..num_captions :
              LET node == filter_parts[CaptionNodeOf(i - 1)]
              IN  /\ caption_times[i] = chunk_windows[i]
                  /\ node.ins[2] = <<"in:v", caption_start_idx + i - 1>>
                  /\ node.start = Fmt2(chunk_windows[i][1])
                  /\ node.end = Fmt2(chunk_windows[i][2])
                  /\ RLe(RAbs(RSub(node.start, chunk_windows[i][1])), <<1, 200>>)
                  /\ RLe(RAbs(RSub(node.end, chunk_windows[i][2])), <<1, 200>>)

\* Three static captions over three chunks of more than one word in all,
\* with a window bound that is not a whole number of hundredths.
C24_Witness ==
    /\ CaptionStageDone
    /\ CaptionsWanted
    /\ StaticRendered
    /\ num_captions = 3
    /\ WordCountOf(3) = 2
    /\ ~IsHundredths(chunk_windows[1][2])
    /\ filter_parts[CaptionNodeOf(0)].end # chunk_windows[1][2]
---------------------------------------------------------------------------
(* C25 *)

\* render_captions_to_images has split a script.
Rendered == entry = "captions" /\ pc = "done"

RECURSIVE Concat(_)
Concat(seqs) == IF seqs = <<>> THEN <<>> ELSE Head(seqs) \o Concat(Tail(seqs))

NonSpace(c) == c \notin Spaces

\* C25: split_into_chunks loses nothing and keeps the order: every chunk is
\* non-empty and trimmed, every chunk but possibly the last ends with a
\* terminal, a trailing unterminated fragment is the last chunk, and the
\* non-whitespace characters of the chunks in order are those of the
\* script.
C25_ChunksKeepScript ==
    Rendered =>
        LET text   == reqs[1].script
            chunks == reqs[1].chunks
            n      == Len(chunks)
            tail   == Strip(text)
        IN  /\ \A i \in 1..n :
                  /\ chunks[i] # <<>>
                  /\ Strip(chunks[i]) = chunks[i]
                  /\ i < n => chunks[i][Len(chunks[i])] \in Terminals
            /\ (tail # <<>> /\ tail[Len(tail)] \notin Terminals) =>
                  /\ n >= 1
                  /\ chunks[n][Len(chunks[n])] \notin Terminals
                  /\ \A k \in 1..Len(chunks[n]) :
                        chunks[n][k] = tail[Len(tail) - Len(chunks[n]) + k]
            /\ SelectSeq(Concat(chunks), NonSpace) = SelectSeq(text, NonSpace)
            /\ (n = 0) <=> (tail = <<>>)

\* "a. b": a terminated sentence, whitespace, and a trailing fragment.
C25_Witness ==
    /\ Rendered
    /\ reqs[1].script = <<"a", ".", " ", "b">>
    /\ reqs[1].chunks = << <<"a", ".">>, <<"b">> >>
---------------------------------------------------------------------------
(* C26 *)

\* The caption images of the call are the ones render_captions_to_images
\* makes from the script of the call, word by word or one per chunk.
RenderedFromScript(typewriter) ==
    /\ ScriptChunks # <<>>
    /\ config.caption_images =
          ImagePaths(render_captions_to_images(config.script, typewriter))

\* The window of a recorded position: of word word_idx within chunk
\* chunk_idx for a typewriter frame (the chunk's window divided by the
\* weights max(len(word), 2)), of the whole chunk for a static caption.
PositionWindow(typewriter, rec) ==
    LET win == chunk_windows[rec.chunk_idx + 1]
    IN  IF ~typewriter THEN win
        ELSE LET w     == CharWeights(Words(ScriptChunks[rec.chunk_idx + 1]))
                 total == SumSeq(w)
                 dur   == RSub(win[2], win[1])
                 at(n) == RAdd(win[1], RMul(Rat(SumSeq(SubSeq(w, 1, n)), total), dur))
             IN  <<at(rec.word_idx), at(rec.word_idx + 1)>>

\* C26: for caption images rendered from the script of the call, in either
\* mode, caption image i gets the window of the (chunk_idx, word_idx) that
\* render_captions_to_images recorded for image i, and its overlay node
\* reads input caption_start_idx + i between that window's bounds (written
\* with two decimals).
C26_CaptionWindowsMatchRecords ==
    (CaptionStageDone /\ CaptionsWanted) =>
        \A typewriter \in BOOLEAN :
            RenderedFromScript(typewriter) =>
                LET data == render_captions_to_images(config.script, typewriter)
                IN  /\ Len(caption_times) = Len(data)
                    /\ \A i \in 1..Len(data) :
                          LET win  == PositionWindow(typewriter, data[i])
                              node == filter_parts[CaptionNodeOf(i - 1)]
                          IN  /\ caption_times[i] = win
                              /\ node.ins[2] = <<"in:v", caption_start_idx + i - 1>>
                              /\ node.start = Fmt2(win[1])
                              /\ node.end = Fmt2(win[2])

\* A typewriter list over two chunks of three and two words: the fourth
\* image is the first word of the second chunk.
C26_Witness ==
    /\ CaptionStageDone
    /\ CaptionsWanted
    /\ RenderedFromScript(TRUE)
    /\ is_typewriter
    /\ Len(ScriptChunks) = 2
    /\ num_captions = 5
    /\ render_captions_to_images(config.script, TRUE)[4].chunk_idx = 1
    /\ render_captions_to_images(config.script, TRUE)[4].word_idx = 0
    /\ caption_times[4][1] = chunk_windows[2][1]
---------------------------------------------------------------------------
(* C27 *)

\* The file that ffmpeg input number idx (0-based) names.
FileOf(idx) == input_args[idx + 1].file

\* The input numbers a node refers to.
RawRefs(node) ==
    {node.ins[p][2] : p \in {q \in DOMAIN node.ins : IsRawStream(node.ins[q])}}

FrameScaleNodes == NodesOut(<<"ov_scaled", 0>>)

\* C27: every numeric input reference of the graph designates the intended
\* file: i is inputs[i] (intro, content in order, outro), len(inputs) is the
\* voice track, len(inputs) + 1 + j is caption image j, then come the title
\* images in segment order, and the frame overlay, when used, is the last
\* input.
C27_InputReferences ==
    input_args # <<>> =>
        LET n == Len(inputs)
        IN  /\ inputs = <<config.intro_image>> \o config.middle_images
                          \o <<config.outro_image>>
            /\ \A k \in DOMAIN filter_parts :
                  \A idx \in RawRefs(filter_parts[k]) : idx + 1 \in DOMAIN input_args
            /\ \A i \in 0..(n - 1) :
                  /\ FileOf(i) = inputs[i + 1]
                  /\ \A k \in NodesOut(<<"v", i>>) : filter_parts[k].ins = <<<<"in:v", i>>>>
            /\ FileOf(n) = config.voiceover_audio
            /\ \A k \in AudioNodes : filter_parts[k].ins = <<<<"in:a", n>>>>
            /\ \A j \in 0..(num_captions - 1) :
                  /\ FileOf(n + 1 + j) = config.caption_images[j + 1]
                  /\ \A k \in NodesOut(<<"v_cap", j>>) :
                        filter_parts[k].ins[2] = <<"in:v", n + 1 + j>>
            /\ \A k \in TitleNodeIdx :
                  LET s   == filter_parts[k].out[2]
                      idx == n + 1 + num_captions + s
                  IN  /\ filter_parts[k].ins[2] = <<"in:v", idx>>
                      /\ FileOf(idx) = IF filter_parts[k].out[1] = "v_title"
                                        THEN <<"title_seg.png", s>>
                                        ELSE <<"title_overlay.png", 0>>
            /\ \A k \in FrameScaleNodes :
                  /\ filter_parts[k].ins = <<<<"in:v", Len(input_args) - 1>>>>
                  /\ FileOf(Len(input_args) - 1) = OverlayPath
            /\ PlanComplete =>
                  Len(input_args) = n + 1 + num_captions + Cardinality(TitleNodeIdx)
                                      + Cardinality(FrameScaleNodes)

\* A complete plan with content, captions, two segment titles and the
\* frame overlay: the overlay is input n + 1 + captions + 2.
C27_Witness ==
    /\ PlanComplete
    /\ NumMiddle = 2
    /\ num_captions >= 2
    /\ Cardinality(CaptionNodeIdx) = num_captions
    /\ Cardinality(TitleNodeIdx) = 2
    /\ FrameScaleNodes # {}
    /\ FileOf(Len(inputs) + 1 + num_captions + 1) = <<"title_seg.png", 1>>
---------------------------------------------------------------------------
(* C28 *)

\* generate has accepted the narration and build_video has done its timing
\* math for at least one content image.
AcceptedTiming ==
    /\ entry = "generate"
    /\ TimingDone
    /\ NumMiddle >= 1
    /\ ~TooShort(voice_duration)

\* The content crossfade nodes in the order the loop placed them.
ContentXfadeOffsets ==
    [k \in 1..Cardinality(ContentXfades) |->
        filter_parts[CHOOSE j \in ContentXfades : filter_parts[j].out[2] = k].offset]

\* C28: for every N >= 1 and every narration of 3 s or more that generate
\* accepts, perSegmentDuration >= 2 * T and the crossfade windows
\* [offset, offset + T] of consecutive content crossfades do not overlap.
\* Refuted: generate puts no limit on N, and with N > D / T + 1 (five
\* images on a 3 s narration) perSegmentDuration = (D + T) / N + T < 2 * T.
C28_CrossfadesDisjoint ==
    AcceptedTiming =>
        /\ RLe(RMul(RInt(2), T_DUR), per_image_duration)
        /\ \A k \in 1..(Len(ContentXfadeOffsets) - 1) :
              RLe(RAdd(ContentXfadeOffsets[k], T_DUR), ContentXfadeOffsets[k + 1])
---------------------------------------------------------------------------
(* C29 *)

\* The length in seconds of segment stream [v<i>]: the frames of the
\* pan-zoom node at 30 fps for a content image, the -t of the input for
\* the intro and the outro.
StreamSeconds(i) ==
    LET node == filter_parts[CHOOSE k \in NodesOut(<<"v", i>>) : TRUE]
    IN  IF node.op = "scale_crop_zoompan"
        THEN Rat(node.frames, ZOOMPAN_FPS)
        ELSE RInt(input_args[i + 1].t)

\* The k-th crossfade of the plan: the content ones in loop order, then the
\* outro one.
PlanXfade(k) ==
    IF k <= Cardinality(ContentXfades)
    THEN filter_parts[CHOOSE j \in ContentXfades : filter_parts[j].out[2] = k]
    ELSE filter_parts[CHOOSE j \in FinalNodes : TRUE]

\* The length of the running video after k crossfades: a crossfade ends
\* its output where the incoming stream, started at the offset, ends.
RECURSIVE RunningLength(_)
RunningLength(k) ==
    IF k = 0 THEN StreamSeconds(0)
    ELSE XfadeLength(PlanXfade(k).offset, StreamSeconds(k))

\* C29: with content streams of int(perSegmentDuration * 30) frames at
\* 30 fps, at every crossfade of a plan for N >= 1 images and D >= 3 the
\* outgoing running video is at least offset + T long.
\* Refuted: when perSegmentDuration * 30 is not a whole number the stream
\* is up to one frame shorter than perSegmentDuration, while the offsets
\* advance by the unrounded perSegmentDuration - T.
C29_FullLeadIn ==
    (PlanComplete /\ NumMiddle >= 1 /\ ~TooShort(voice_duration)) =>
        \A k \in 1..(NumMiddle + 1) :
            RLe(RAdd(PlanXfade(k).offset, T_DUR), RunningLength(k - 1))
---------------------------------------------------------------------------
(* C30 *)

\* download_drive has returned without an error.
LeftDownload ==
    /\ entry = "graph"
    /\ visited # <<>>
    /\ state.error = ""
    /\ ~(pc = "raised" /\ Len(visited) = 1)

\* The finish node has run.
Finished == entry = "graph" /\ pc = "end"

LoopNodes == <<"generate_script", "generate_voiceover", "assemble_reel", "advance">>

InLoop(v) == \E k \in DOMAIN LoopNodes : v[1] = LoopNodes[k]

\* The visits of the four loop nodes, in the order they were made.
LoopVisits == SelectSeq(visited, InLoop)

\* One round of the four nodes per entry of selected_folders, in order.
OncePerEntry ==
    /\ Len(LoopVisits) = 4 * Len(state.selected_folders)
    /\ \A j \in DOMAIN LoopVisits :
          LoopVisits[j] = <<LoopNodes[((j - 1) % 4) + 1], (j - 1) \div 4>>

\* results holds one entry per selected folder, in the same order.
OneResultPerFolder ==
    /\ Len(state.results) = Len(state.selected_folders)
    /\ \A i \in DOMAIN state.results :
          state.results[i].folder = state.selected_folders[i]

\* generate_script is never entered with the pointer past the list, and at
\* finish the rounds and the results match selected_folders.
GraphSafe ==
    /\ (entry = "graph" /\ pc = "generate_script") =>
          state.current_folder_idx < Len(state.selected_folders)
    /\ error # "IndexError: list index out of range"
    /\ (Finished /\ state.error = "") => (OncePerEntry /\ OneResultPerFolder)

\* C30: every run that leaves download_drive without an error eventually
\* reaches finish, after one round of generate_script, generate_voiceover,
\* assemble_reel and advance per entry of selected_folders, in list order;
\* generate_script never indexes selected_folders out of range, and at
\* finish results holds one entry per selected folder, in the same order.
\* Refuted: the interactive prompt never returns on a closed stdin, and an
\* article file that cannot be decoded makes generate_script raise.
C30_EveryRunFinishes ==
    /\ []GraphSafe
    /\ LeftDownload ~> Finished

=============================================================================
